---------------------------- MODULE Spec2Model ----------------------------
(***************************************************************************)
(* Model of src/backend/tcop/utility.c (ADB build): the utility-statement  *)
(* dispatcher of a cluster coordinator.  A call of an entry point is one   *)
(* action; what the call does is computed, in program order, as a trace of *)
(* events (calls made to the collaborators: local command handlers, the    *)
(* transport, the event-trigger subsystem, the command counter ...).  A    *)
(* raised error ends the trace with an "error" event.                      *)
(***************************************************************************)
EXTENDS Naturals, Sequences, FiniteSets, TLC

VARIABLES env,      \* ambient session / cluster state read by the dispatcher
          call,     \* the request of the last call
          trace,    \* the events of the last call, in program order
          prev      \* the call before the last one: [call, trace]

vars == <<env, call, trace, prev>>

(***************************************************************************)
(* Bounds                                                                  *)
(***************************************************************************)
MaxObjects == 3      \* longest object list of a DROP
MaxDataNodes == 1    \* largest NumDataNodes
MaxSubStmts == 2     \* longest expansion list of CREATE TABLE

(***************************************************************************)
(* RemoteQueryExecType                                                     *)
(***************************************************************************)
EXEC_ON_ALL_NODES == "ALL_NODES"
EXEC_ON_COORDS == "COORDS"
EXEC_ON_DATANODES == "DATANODES"
EXEC_ON_NONE == "NONE"
ExecTypes == {EXEC_ON_ALL_NODES, EXEC_ON_COORDS, EXEC_ON_DATANODES, EXEC_ON_NONE}

(***************************************************************************)
(* Events and traces                                                       *)
(***************************************************************************)
Ev(op, tag) ==
    [op |-> op, tag |-> tag, exec |-> "-", temp |-> FALSE, fa |-> FALSE,
     node |-> FALSE]

Err(code) == <<Ev("error", code)>>

Failed(t) == Len(t) > 0 /\ t[Len(t)].op = "error"

ErrorOf(t) == IF Failed(t) THEN t[Len(t)].tag ELSE "none"

\* sequential composition: b runs only when a returned normally
Then(a, b) == IF Failed(a) THEN a ELSE a \o b

Count(t, op) == Cardinality({i \in 1..Len(t) : t[i].op = op})

Has(t, op) == \E i \in 1..Len(t) : t[i].op = op

\* a collaborator call that raises when the oracle says so
Callee(op, tag, fails) ==
    IF fails THEN <<Ev(op, tag), Ev("error", tag)>> ELSE <<Ev(op, tag)>>

(***************************************************************************)
(* Session state                                                           *)
(***************************************************************************)
Env0 ==
    [coordMaster |-> TRUE,      \* IsCoordMaster()
     connFromCoord |-> FALSE,   \* IsConnFromCoord()
     normalMode |-> TRUE,       \* IsNormalProcessingMode()
     NumDataNodes |-> 1,
     XactReadOnly |-> FALSE,
     parallel |-> FALSE,        \* IsInParallelMode()
     recovery |-> FALSE,        \* RecoveryInProgress()
     restricted |-> FALSE,      \* InSecurityRestrictedOperation()
     xactBlock |-> FALSE,       \* IsTransactionBlock()
     hook |-> FALSE,            \* ProcessUtility_hook != NULL
     hookChains |-> FALSE,      \* the registered hook calls standard_ProcessUtility
     pgxcCoord |-> TRUE,        \* IS_PGXC_COORDINATOR
     superuser |-> TRUE,        \* superuser()
     evtTriggers |-> TRUE]      \* EventTriggerBeginCompleteQuery() result

IsCoordMaster(e) == e.coordMaster

(***************************************************************************)
(* RemoteUtilityContext and the Remote Dispatcher                          *)
(***************************************************************************)
RemoteUtilityContext(sentToRemote, query) ==
    [sentToRemote |-> sentToRemote, force_autocommit |-> FALSE,
     is_temp |-> FALSE, exec_type |-> EXEC_ON_ALL_NODES, stmt |-> FALSE,
     query |-> query, remoteFails |-> FALSE]

\* the call of the transport, ExecInterXactUtility(step, ...)
ExecInterXactUtility(c) ==
    <<[op |-> "transport", tag |-> c.query, exec |-> c.exec_type,
       temp |-> c.is_temp, fa |-> c.force_autocommit, node |-> c.stmt]>>
    \o (IF c.remoteFails THEN Err("RemoteFailure") ELSE <<>>)

ExecRemoteUtilityStmt_NoSentCheck(c, e) ==
    IF ~IsCoordMaster(e) THEN <<>>
    ELSE IF c.exec_type = EXEC_ON_NONE THEN <<>>
    ELSE IF e.NumDataNodes = 0 THEN Err("NoDataNodesConfigured")
    ELSE ExecInterXactUtility(c)

ExecRemoteUtilityStmt_NoNoneCheck(c, e) ==
    IF ~IsCoordMaster(e) THEN <<>>
    ELSE IF c.sentToRemote THEN <<>>
    ELSE IF e.NumDataNodes = 0 THEN Err("NoDataNodesConfigured")
    ELSE ExecInterXactUtility(c)

ExecRemoteUtilityStmt_CountFirst(c, e) ==
    IF ~IsCoordMaster(e) THEN <<>>
    ELSE IF e.NumDataNodes = 0 THEN Err("NoDataNodesConfigured")
    ELSE IF c.exec_type = EXEC_ON_NONE THEN <<>>
    ELSE IF c.sentToRemote THEN <<>>
    ELSE ExecInterXactUtility(c)

ExecRemoteUtilityStmt(c, e) ==
    IF ~IsCoordMaster(e) THEN <<>>
    ELSE IF c.exec_type = EXEC_ON_NONE THEN <<>>
    ELSE IF c.sentToRemote THEN <<>>
    ELSE IF e.NumDataNodes = 0 THEN Err("NoDataNodesConfigured")
    ELSE ExecInterXactUtility(c)

(***************************************************************************)
(* Catalog lookups used by the placement rules.  A relation is named by    *)
(* its oid; InvalidOid is what a name that does not resolve yields.        *)
(***************************************************************************)
InvalidOid == "InvalidOid"

RELKIND_RELATION == "r"
RELKIND_SEQUENCE == "S"
RELKIND_VIEW == "v"
RELKIND_INDEX == "i"
RELKIND_MATVIEW == "m"
RELKIND_FOREIGN_TABLE == "f"

Rel(relkind, temp, base) == [relkind |-> relkind, temp |-> temp, base |-> base]

Catalog ==
    [t  |-> Rel(RELKIND_RELATION, FALSE, InvalidOid),
     tt |-> Rel(RELKIND_RELATION, TRUE, InvalidOid),
     s  |-> Rel(RELKIND_SEQUENCE, FALSE, InvalidOid),
     ts |-> Rel(RELKIND_SEQUENCE, TRUE, InvalidOid),
     v  |-> Rel(RELKIND_VIEW, FALSE, InvalidOid),
     tv |-> Rel(RELKIND_VIEW, TRUE, InvalidOid),
     i  |-> Rel(RELKIND_INDEX, FALSE, "t"),
     ti |-> Rel(RELKIND_INDEX, TRUE, "tt"),
     mi |-> Rel(RELKIND_INDEX, FALSE, "m"),
     m  |-> Rel(RELKIND_MATVIEW, FALSE, InvalidOid),
     f  |-> Rel(RELKIND_FOREIGN_TABLE, FALSE, InvalidOid)]

Relations == DOMAIN Catalog

\* names a statement can carry: the relations and one name that resolves to nothing
Names == Relations \cup {"nx"}

RangeVarGetRelid(name) == IF name \in Relations THEN name ELSE InvalidOid

OidIsValid(oid) == oid # InvalidOid

IsTempTable(oid) == IF oid \in Relations THEN Catalog[oid].temp ELSE FALSE

get_rel_relkind(oid) == IF oid \in Relations THEN Catalog[oid].relkind ELSE "0"

IndexGetRelation(oid) == IF oid \in Relations THEN Catalog[oid].base ELSE InvalidOid

(***************************************************************************)
(* Node Target Resolver                                                    *)
(***************************************************************************)
Placement(exec_type, is_temp) == [exec_type |-> exec_type, is_temp |-> is_temp]

ExecUtilityFindNodesRelkind_ViewsAlike(relid) ==
    LET relkind_str == get_rel_relkind(relid) IN
    CASE relkind_str = RELKIND_SEQUENCE ->
            Placement(EXEC_ON_ALL_NODES, IsTempTable(relid))
      [] relkind_str = RELKIND_RELATION ->
            Placement(EXEC_ON_ALL_NODES, IsTempTable(relid))
      [] relkind_str = RELKIND_VIEW ->
            Placement(EXEC_ON_COORDS, IsTempTable(relid))
      [] OTHER -> Placement(EXEC_ON_ALL_NODES, FALSE)

ExecUtilityFindNodesRelkind(relid) ==
    LET relkind_str == get_rel_relkind(relid) IN
    CASE relkind_str = RELKIND_SEQUENCE ->
            Placement(EXEC_ON_ALL_NODES, IsTempTable(relid))
      [] relkind_str = RELKIND_RELATION ->
            Placement(EXEC_ON_ALL_NODES, IsTempTable(relid))
      [] relkind_str = RELKIND_VIEW ->
            IF IsTempTable(relid) THEN Placement(EXEC_ON_NONE, TRUE)
            ELSE Placement(EXEC_ON_COORDS, FALSE)
      [] OTHER -> Placement(EXEC_ON_ALL_NODES, FALSE)

ExecUtilityFindNodes_FlipsFlag(object_type, object_id) ==
    CASE object_type = "OBJECT_SEQUENCE" ->
            Placement(EXEC_ON_ALL_NODES, IsTempTable(object_id))
      [] object_type \in {"OBJECT_TABLE", "OBJECT_TRIGGER"} ->
            ExecUtilityFindNodesRelkind(object_id)
      [] object_type \in {"OBJECT_RULE", "OBJECT_VIEW"} ->
            IF IsTempTable(object_id) THEN Placement(EXEC_ON_NONE, TRUE)
            ELSE Placement(EXEC_ON_COORDS, FALSE)
      [] object_type = "OBJECT_INDEX" ->
            IF IsTempTable(object_id) THEN Placement(EXEC_ON_DATANODES, TRUE)
            ELSE IF get_rel_relkind(object_id) = RELKIND_MATVIEW
                    \/ (get_rel_relkind(object_id) = RELKIND_INDEX
                        /\ get_rel_relkind(IndexGetRelation(object_id))
                           = RELKIND_MATVIEW)
                 THEN Placement(EXEC_ON_COORDS, FALSE)
                 ELSE Placement(EXEC_ON_ALL_NODES, FALSE)
      [] object_type = "OBJECT_MATVIEW" -> Placement(EXEC_ON_COORDS, FALSE)
      [] OTHER -> Placement(EXEC_ON_ALL_NODES,
                            trace = <<>> \/ ~trace[Len(trace)].temp)

ExecUtilityFindNodes_SequenceAsView(object_type, object_id) ==
    CASE object_type \in {"OBJECT_TABLE", "OBJECT_TRIGGER"} ->
            ExecUtilityFindNodesRelkind(object_id)
      [] object_type \in {"OBJECT_RULE", "OBJECT_VIEW", "OBJECT_SEQUENCE"} ->
            IF IsTempTable(object_id) THEN Placement(EXEC_ON_NONE, TRUE)
            ELSE Placement(EXEC_ON_COORDS, FALSE)
      [] object_type = "OBJECT_INDEX" ->
            IF IsTempTable(object_id) THEN Placement(EXEC_ON_DATANODES, TRUE)
            ELSE IF get_rel_relkind(object_id) = RELKIND_MATVIEW
                    \/ (get_rel_relkind(object_id) = RELKIND_INDEX
                        /\ get_rel_relkind(IndexGetRelation(object_id))
                           = RELKIND_MATVIEW)
                 THEN Placement(EXEC_ON_COORDS, FALSE)
                 ELSE Placement(EXEC_ON_ALL_NODES, FALSE)
      [] object_type = "OBJECT_MATVIEW" -> Placement(EXEC_ON_COORDS, FALSE)
      [] OTHER -> Placement(EXEC_ON_ALL_NODES, FALSE)

ExecUtilityFindNodes_DirectMatviewOnly(object_type, object_id) ==
    CASE object_type = "OBJECT_SEQUENCE" ->
            Placement(EXEC_ON_ALL_NODES, IsTempTable(object_id))
      [] object_type \in {"OBJECT_TABLE", "OBJECT_TRIGGER"} ->
            ExecUtilityFindNodesRelkind(object_id)
      [] object_type \in {"OBJECT_RULE", "OBJECT_VIEW"} ->
            IF IsTempTable(object_id) THEN Placement(EXEC_ON_NONE, TRUE)
            ELSE Placement(EXEC_ON_COORDS, FALSE)
      [] object_type = "OBJECT_INDEX" ->
            IF IsTempTable(object_id) THEN Placement(EXEC_ON_DATANODES, TRUE)
            ELSE IF get_rel_relkind(object_id) = RELKIND_MATVIEW
                 THEN Placement(EXEC_ON_COORDS, FALSE)
                 ELSE Placement(EXEC_ON_ALL_NODES, FALSE)
      [] object_type = "OBJECT_MATVIEW" -> Placement(EXEC_ON_COORDS, FALSE)
      [] OTHER -> Placement(EXEC_ON_ALL_NODES, FALSE)

ExecUtilityFindNodes(object_type, object_id) ==
    CASE object_type = "OBJECT_SEQUENCE" ->
            Placement(EXEC_ON_ALL_NODES, IsTempTable(object_id))
      [] object_type \in {"OBJECT_TABLE", "OBJECT_TRIGGER"} ->
            ExecUtilityFindNodesRelkind(object_id)
      [] object_type \in {"OBJECT_RULE", "OBJECT_VIEW"} ->
            IF IsTempTable(object_id) THEN Placement(EXEC_ON_NONE, TRUE)
            ELSE Placement(EXEC_ON_COORDS, FALSE)
      [] object_type = "OBJECT_INDEX" ->
            IF IsTempTable(object_id) THEN Placement(EXEC_ON_DATANODES, TRUE)
            ELSE IF get_rel_relkind(object_id) = RELKIND_MATVIEW
                    \/ (get_rel_relkind(object_id) = RELKIND_INDEX
                        /\ get_rel_relkind(IndexGetRelation(object_id))
                           = RELKIND_MATVIEW)
                 THEN Placement(EXEC_ON_COORDS, FALSE)
                 ELSE Placement(EXEC_ON_ALL_NODES, FALSE)
      [] object_type = "OBJECT_MATVIEW" -> Placement(EXEC_ON_COORDS, FALSE)
      [] OTHER -> Placement(EXEC_ON_ALL_NODES, FALSE)

(***************************************************************************)
(* Statements.  One record shape for every node tag; a field that a kind   *)
(* does not carry keeps its default.                                       *)
(***************************************************************************)
Stmt0 ==
    [kind |-> "none",          \* nodeTag(parsetree)
     sub |-> "none",           \* stmt->kind / subtype / targtype / name
     objtype |-> "none",       \* removeType / renameType / objectType / objtype
     objects |-> <<>>,         \* names of a DROP or GRANT list
     relation |-> "none",      \* stmt->relation, "none" when NULL
     gid |-> "none",           \* stmt->gid of a transaction statement
     missing_ok |-> FALSE,     \* IF EXISTS
     temp |-> FALSE,           \* relpersistence == RELPERSISTENCE_TEMP
     flag |-> FALSE,           \* concurrent / is_local / is_serial / skipData
     flag2 |-> FALSE,          \* isconstraint / distributeby / has locator info
     fails |-> FALSE,          \* the local command handler raises
     exec |-> "-",             \* exec_type of a RemoteQuery node
     cmds |-> <<>>,            \* subtypes of the AlterTableCmds
     stmts |-> <<>>]           \* what parse analysis expands the statement to

\* result of a placement step: the errors it raised and its out-parameters
PreResult(t, is_temp, exec_type) ==
    [trace |-> t, is_temp |-> is_temp, exec_type |-> exec_type]

(***************************************************************************)
(* Drop Consistency Checker                                                *)
(***************************************************************************)
RelationDropTypes ==
    {"OBJECT_TABLE", "OBJECT_SEQUENCE", "OBJECT_VIEW", "OBJECT_INDEX"}

RECURSIVE DropStmtObjects(_, _, _, _, _)
\* the foreach loop over stmt->objects, from cell n on
DropStmtObjects(stmt, n, is_first, res_exec_type, res_is_temp) ==
    IF n > Len(stmt.objects)
    THEN PreResult(<<>>, res_is_temp, res_exec_type)
    ELSE
      LET relid == RangeVarGetRelid(stmt.objects[n])
          loc == ExecUtilityFindNodes(stmt.objtype, relid)
      IN
      IF ~OidIsValid(relid) /\ ~stmt.missing_ok
      THEN PreResult(Err("UndefinedObject"), res_is_temp, res_exec_type)
      ELSE IF ~OidIsValid(relid) /\ stmt.missing_ok
      THEN DropStmtObjects(stmt, n + 1, is_first, res_exec_type, res_is_temp)
      ELSE IF is_first
      THEN DropStmtObjects(stmt, n + 1, FALSE, loc.exec_type, loc.is_temp)
      ELSE IF loc.exec_type # res_exec_type \/ loc.is_temp # res_is_temp
      THEN PreResult(Err("MixedPlacementError"), res_is_temp, res_exec_type)
      ELSE DropStmtObjects(stmt, n + 1, FALSE, res_exec_type, res_is_temp)

DropStmtPreTreatment_FirstOnly(stmt, e, is_temp, exec_type) ==
    IF ~IsCoordMaster(e) THEN PreResult(<<>>, is_temp, exec_type)
    ELSE IF stmt.objtype \in RelationDropTypes
    THEN LET relid == RangeVarGetRelid(stmt.objects[1])
             loc == ExecUtilityFindNodes(stmt.objtype, relid)
         IN IF OidIsValid(relid) THEN PreResult(<<>>, loc.is_temp, loc.exec_type)
            ELSE PreResult(<<>>, FALSE, EXEC_ON_ALL_NODES)
    ELSE PreResult(<<>>, FALSE, exec_type)

DropStmtPreTreatment_SkipMissing(stmt, e, is_temp, exec_type) ==
    IF ~IsCoordMaster(e) THEN PreResult(<<>>, is_temp, exec_type)
    ELSE IF stmt.objtype \in RelationDropTypes
    THEN DropStmtObjects([stmt EXCEPT !.missing_ok = TRUE], 1, TRUE,
                         EXEC_ON_ALL_NODES, FALSE)
    ELSE PreResult(<<>>, FALSE, exec_type)

DropStmtPreTreatment_NoneByDefault(stmt, e, is_temp, exec_type) ==
    IF ~IsCoordMaster(e) THEN PreResult(<<>>, is_temp, exec_type)
    ELSE IF stmt.objtype \in RelationDropTypes
    THEN DropStmtObjects(stmt, 1, TRUE, EXEC_ON_NONE, FALSE)
    ELSE PreResult(<<>>, FALSE, exec_type)

DropStmtPreTreatment(stmt, e, is_temp, exec_type) ==
    IF ~IsCoordMaster(e) THEN PreResult(<<>>, is_temp, exec_type)
    ELSE IF stmt.objtype \in RelationDropTypes
    THEN DropStmtObjects(stmt, 1, TRUE, EXEC_ON_ALL_NODES, FALSE)
    ELSE IF stmt.objtype \in {"OBJECT_RULE", "OBJECT_TRIGGER"}
    THEN \* get_object_address(..., stmt->missing_ok) on the first object
         LET relation == RangeVarGetRelid(stmt.objects[1]) IN
         IF ~OidIsValid(relation) /\ ~stmt.missing_ok
         THEN PreResult(Err("UndefinedObject"), FALSE, EXEC_ON_ALL_NODES)
         ELSE IF OidIsValid(relation)
         THEN LET loc == ExecUtilityFindNodes(stmt.objtype, relation)
              IN PreResult(<<>>, loc.is_temp, loc.exec_type)
         ELSE PreResult(<<>>, FALSE, EXEC_ON_NONE)
    ELSE PreResult(<<>>, FALSE, exec_type)

(***************************************************************************)
(* ExecDropStmt: dispatch function for DropStmt                            *)
(***************************************************************************)
RemoveRelationsTypes ==
    {"OBJECT_INDEX", "OBJECT_TABLE", "OBJECT_SEQUENCE", "OBJECT_VIEW",
     "OBJECT_MATVIEW", "OBJECT_FOREIGN_TABLE"}

ExecDropStmt(stmt, sentToRemote, localFails, e) ==
    LET utilityContext == RemoteUtilityContext(sentToRemote, "DropStmt") IN
    IF stmt.objtype \in RemoveRelationsTypes
    THEN
      IF stmt.objtype = "OBJECT_INDEX" /\ stmt.flag
      THEN Err("FeatureNotSupported")
      ELSE
        LET exec_type0 == IF stmt.objtype = "OBJECT_MATVIEW"
                          THEN EXEC_ON_COORDS ELSE EXEC_ON_ALL_NODES
            pre == DropStmtPreTreatment(stmt, e, FALSE, exec_type0)
        IN Then(pre.trace,
           Then(Callee("local", "RemoveRelations", localFails),
                IF ~pre.is_temp
                THEN ExecRemoteUtilityStmt(
                        [utilityContext EXCEPT !.is_temp = pre.is_temp,
                                               !.exec_type = pre.exec_type,
                                               !.stmt = TRUE], e)
                ELSE <<>>))
    ELSE
      LET pre == DropStmtPreTreatment(stmt, e, FALSE, EXEC_ON_ALL_NODES)
      IN Then(pre.trace,
         Then(Callee("local", "RemoveObjects", localFails),
              IF ~pre.is_temp
              THEN ExecRemoteUtilityStmt(
                      [utilityContext EXCEPT !.exec_type = pre.exec_type,
                                             !.is_temp = pre.is_temp], e)
              ELSE <<>>))

(***************************************************************************)
(* Guard checks                                                            *)
(***************************************************************************)
Guard(violated, code) == IF violated THEN Err(code) ELSE <<>>

\* ereport(ERROR, (errcode(...), errmsg(...))): the error event of a guard is
\* named after the message and carries the errcode in exec
PreventCommandIfReadOnly(e) ==
    IF e.XactReadOnly
    THEN <<[Ev("error", "ReadOnlyViolation") EXCEPT
               !.exec = "ERRCODE_READ_ONLY_SQL_TRANSACTION"]>>
    ELSE <<>>

PreventCommandIfParallelMode(e) ==
    IF e.parallel
    THEN <<[Ev("error", "ParallelModeViolation") EXCEPT
               !.exec = "ERRCODE_INVALID_TRANSACTION_STATE"]>>
    ELSE <<>>

PreventCommandDuringRecovery(e) ==
    IF e.recovery
    THEN <<[Ev("error", "RecoveryModeViolation") EXCEPT
               !.exec = "ERRCODE_READ_ONLY_SQL_TRANSACTION"]>>
    ELSE <<>>

CheckRestrictedOperation(e) ==
    IF e.restricted
    THEN <<[Ev("error", "InsufficientPrivilege") EXCEPT
               !.exec = "ERRCODE_INSUFFICIENT_PRIVILEGE"]>>
    ELSE <<>>

\* xact.c: rejects a statement issued inside a transaction block
PreventTransactionChain(isTopLevel, e) ==
    Guard(e.xactBlock, "ActiveSqlTransaction")

\* xact.c: rejects a statement issued outside a transaction block
RequireTransactionChain(isTopLevel, e) ==
    Guard(~e.xactBlock, "NoActiveTransactionBlock")

ReadOnlySensitive ==
    {"T_AlterDatabaseStmt", "T_AlterDatabaseSetStmt", "T_AlterDomainStmt",
     "T_AlterFunctionStmt", "T_AlterRoleStmt", "T_AlterRoleSetStmt",
     "T_AlterObjectDependsStmt", "T_AlterObjectSchemaStmt", "T_AlterOwnerStmt",
     "T_AlterOperatorStmt", "T_AlterSeqStmt", "T_AlterTableMoveAllStmt",
     "T_AlterTableStmt", "T_RenameStmt", "T_CommentStmt", "T_DefineStmt",
     "T_CreateCastStmt", "T_CreateEventTrigStmt", "T_AlterEventTrigStmt",
     "T_CreateConversionStmt", "T_CreatedbStmt", "T_CreateDomainStmt",
     "T_CreateFunctionStmt", "T_CreateRoleStmt", "T_IndexStmt",
     "T_CreatePLangStmt", "T_CreateOpClassStmt", "T_CreateOpFamilyStmt",
     "T_AlterOpFamilyStmt", "T_RuleStmt", "T_CreateSchemaStmt",
     "T_CreateSeqStmt", "T_CreateStmt", "T_CreateTableAsStmt",
     "T_RefreshMatViewStmt", "T_CreateTableSpaceStmt", "T_CreateTransformStmt",
     "T_CreateTrigStmt", "T_CompositeTypeStmt", "T_CreateEnumStmt",
     "T_CreateRangeStmt", "T_AlterEnumStmt", "T_ViewStmt", "T_DropStmt",
     "T_DropdbStmt", "T_DropTableSpaceStmt", "T_DropRoleStmt", "T_GrantStmt",
     "T_GrantRoleStmt", "T_AlterDefaultPrivilegesStmt", "T_TruncateStmt",
     "T_DropOwnedStmt", "T_ReassignOwnedStmt", "T_AlterTSDictionaryStmt",
     "T_AlterTSConfigurationStmt", "T_CreateExtensionStmt",
     "T_AlterExtensionStmt", "T_AlterExtensionContentsStmt", "T_CreateFdwStmt",
     "T_AlterFdwStmt", "T_CreateForeignServerStmt", "T_AlterForeignServerStmt",
     "T_CreateUserMappingStmt", "T_AlterUserMappingStmt",
     "T_DropUserMappingStmt", "T_AlterTableSpaceOptionsStmt",
     "T_CreateForeignTableStmt", "T_ImportForeignSchemaStmt", "T_SecLabelStmt"}

check_xact_readonly_NoTruncate(stmt, e) ==
    IF ~e.XactReadOnly /\ ~e.parallel THEN <<>>
    ELSE IF stmt.kind \in ReadOnlySensitive \ {"T_TruncateStmt"}
    THEN Then(PreventCommandIfReadOnly(e), PreventCommandIfParallelMode(e))
    ELSE <<>>

check_xact_readonly_ParallelFirst(stmt, e) ==
    IF ~e.XactReadOnly /\ ~e.parallel THEN <<>>
    ELSE IF stmt.kind \in ReadOnlySensitive
    THEN Then(PreventCommandIfParallelMode(e), PreventCommandIfReadOnly(e))
    ELSE <<>>

check_xact_readonly(stmt, e) ==
    IF ~e.XactReadOnly /\ ~e.parallel THEN <<>>
    ELSE IF stmt.kind \in ReadOnlySensitive
    THEN Then(PreventCommandIfReadOnly(e), PreventCommandIfParallelMode(e))
    ELSE <<>>

(***************************************************************************)
(* IsStmtAllowedInLockedMode                                               *)
(***************************************************************************)
AllowedInLockedMode ==
    {"T_ExecuteStmt", "T_CreateNodeStmt", "T_DropNodeStmt", "T_AlterNodeStmt",
     "T_TransactionStmt", "T_PlannedStmt", "T_ClosePortalStmt", "T_FetchStmt",
     "T_TruncateStmt", "T_CopyStmt", "T_PrepareStmt", "T_DeallocateStmt",
     "T_DoStmt", "T_NotifyStmt", "T_ListenStmt", "T_UnlistenStmt",
     "T_LoadStmt", "T_ClusterStmt", "T_VacuumStmt", "T_ExplainStmt",
     "T_VariableSetStmt", "T_VariableShowStmt", "T_DiscardStmt", "T_LockStmt",
     "T_ConstraintsSetStmt", "T_CheckPointStmt", "T_BarrierStmt",
     "T_ReindexStmt", "T_RemoteQuery", "T_CleanConnStmt"}

IsStmtAllowedInLockedMode(stmt) ==
    IF stmt.kind = "T_CreateStmt" THEN stmt.temp
    ELSE stmt.kind \in AllowedInLockedMode

(***************************************************************************)
(* Event-trigger support tests (event_trigger.c)                           *)
(***************************************************************************)
EventTriggerSupportsObjectType(obtype) ==
    obtype \notin {"OBJECT_DATABASE", "OBJECT_TABLESPACE", "OBJECT_ROLE",
                   "OBJECT_EVENT_TRIGGER"}

EventTriggerSupportsGrantObjectType(objtype) ==
    objtype \notin {"ACL_OBJECT_DATABASE", "ACL_OBJECT_TABLESPACE"}

(***************************************************************************)
(* Pieces shared by the cases of the dispatcher                            *)
(***************************************************************************)
\* a request: the arguments of ProcessUtility
Request(stmt, context, sentToRemote, hasTag) ==
    [stmt |-> stmt, context |-> context, sentToRemote |-> sentToRemote,
     hasTag |-> hasTag]

\* the utilityContext a dispatcher function starts with
UtilityContext(r) == RemoteUtilityContext(r.sentToRemote, r.stmt.kind)

\* the local command handler of the statement
Local(name, r) == Callee("local", name, r.stmt.fails)

\* a command handler that is handed completionTag; the event carries
\* completionTag != NULL in node
LocalWithTag(name, r) ==
    <<[Ev("local", name) EXCEPT !.node = r.hasTag]>>
    \o (IF r.stmt.fails THEN Err(name) ELSE <<>>)

SetTag_NoNullCheck(r, text) == <<Ev("tag", text)>>

SetTag(r, text) == IF r.hasTag THEN <<Ev("tag", text)>> ELSE <<>>

RECURSIVE RunAll(_)
\* the traces of consecutive steps, up to the first one that raises
RunAll(ts) == IF ts = <<>> THEN <<>> ELSE Then(Head(ts), RunAll(Tail(ts)))

(***************************************************************************)
(* Transaction Statement Handler (case T_TransactionStmt)                  *)
(***************************************************************************)
\* the call FinishPreparedTransactionExt(gid, isCommit, missing_ok); the
\* event carries gid in exec, isCommit in node and missing_ok in temp
\* the call with the phase put back before the error leaves the case
FinishPreparedTransactionExt_PhaseRestored(gid, isCommit, missing_ok, fails) ==
    <<[Ev("xact", "FinishPreparedTransactionExt") EXCEPT
          !.exec = gid, !.node = isCommit, !.temp = missing_ok]>>
    \o (IF fails
        THEN <<Ev("phase", "1")>> \o Err("FinishPreparedTransactionExt")
        ELSE <<>>)

FinishPreparedTransactionExt(gid, isCommit, missing_ok, fails) ==
    <<[Ev("xact", "FinishPreparedTransactionExt") EXCEPT
          !.exec = gid, !.node = isCommit, !.temp = missing_ok]>>
    \o (IF fails THEN Err("FinishPreparedTransactionExt") ELSE <<>>)

TransactionStmt_CommitTagKept(r, e) ==
    LET stmt == r.stmt
        isTopLevel == r.context = "TOPLEVEL"
    IN
    CASE stmt.sub \in {"TRANS_STMT_BEGIN", "TRANS_STMT_START"} ->
            Callee("xact", "BeginTransactionBlock", stmt.fails)
      [] stmt.sub = "TRANS_STMT_COMMIT" ->
            Callee("xact", "EndTransactionBlock", stmt.fails)
      [] stmt.sub = "TRANS_STMT_PREPARE" ->
            RunAll(<<PreventCommandDuringRecovery(e),
                     Callee("xact", "PrepareTransactionBlock", stmt.fails),
                     IF stmt.flag THEN SetTag(r, "ROLLBACK") ELSE <<>> >>)
      [] stmt.sub = "TRANS_STMT_COMMIT_PREPARED" ->
            RunAll(<<PreventTransactionChain(isTopLevel, e),
                     PreventCommandDuringRecovery(e),
                     <<Ev("phase", "2")>>,
                     FinishPreparedTransactionExt(stmt.gid, TRUE,
                                                  stmt.missing_ok, stmt.fails),
                     <<Ev("phase", "1")>> >>)
      [] stmt.sub = "TRANS_STMT_ROLLBACK_PREPARED" ->
            RunAll(<<PreventTransactionChain(isTopLevel, e),
                     PreventCommandDuringRecovery(e),
                     <<Ev("phase", "2")>>,
                     FinishPreparedTransactionExt(stmt.gid, FALSE,
                                                  stmt.missing_ok, stmt.fails),
                     <<Ev("phase", "1")>> >>)
      [] stmt.sub = "TRANS_STMT_ROLLBACK" ->
            Callee("xact", "UserAbortTransactionBlock", stmt.fails)
      [] stmt.sub = "TRANS_STMT_SAVEPOINT" ->
            RunAll(<<Err("StatementTooComplex"),
                     RequireTransactionChain(isTopLevel, e),
                     Callee("xact", "DefineSavepoint", stmt.fails)>>)
      [] stmt.sub = "TRANS_STMT_RELEASE" ->
            Then(RequireTransactionChain(isTopLevel, e),
                 Callee("xact", "ReleaseSavepoint", stmt.fails))
      [] stmt.sub = "TRANS_STMT_ROLLBACK_TO" ->
            Then(RequireTransactionChain(isTopLevel, e),
                 Callee("xact", "RollbackToSavepoint", stmt.fails))
      [] OTHER -> <<>>

TransactionStmt_PrepareFirst(r, e) ==
    LET stmt == r.stmt
        isTopLevel == r.context = "TOPLEVEL"
    IN
    CASE stmt.sub \in {"TRANS_STMT_BEGIN", "TRANS_STMT_START"} ->
            Callee("xact", "BeginTransactionBlock", stmt.fails)
      [] stmt.sub = "TRANS_STMT_COMMIT" ->
            Then(Callee("xact", "EndTransactionBlock", stmt.fails),
                 IF stmt.flag THEN SetTag(r, "ROLLBACK") ELSE <<>>)
      [] stmt.sub = "TRANS_STMT_PREPARE" ->
            RunAll(<<Callee("xact", "PrepareTransactionBlock", stmt.fails),
                     PreventCommandDuringRecovery(e),
                     IF stmt.flag THEN SetTag(r, "ROLLBACK") ELSE <<>> >>)
      [] stmt.sub = "TRANS_STMT_COMMIT_PREPARED" ->
            RunAll(<<PreventTransactionChain(isTopLevel, e),
                     PreventCommandDuringRecovery(e),
                     <<Ev("phase", "2")>>,
                     FinishPreparedTransactionExt(stmt.gid, TRUE,
                                                  stmt.missing_ok, stmt.fails),
                     <<Ev("phase", "1")>> >>)
      [] stmt.sub = "TRANS_STMT_ROLLBACK_PREPARED" ->
            RunAll(<<PreventTransactionChain(isTopLevel, e),
                     PreventCommandDuringRecovery(e),
                     <<Ev("phase", "2")>>,
                     FinishPreparedTransactionExt(stmt.gid, FALSE,
                                                  stmt.missing_ok, stmt.fails),
                     <<Ev("phase", "1")>> >>)
      [] stmt.sub = "TRANS_STMT_ROLLBACK" ->
            Callee("xact", "UserAbortTransactionBlock", stmt.fails)
      [] stmt.sub = "TRANS_STMT_SAVEPOINT" ->
            RunAll(<<Err("StatementTooComplex"),
                     RequireTransactionChain(isTopLevel, e),
                     Callee("xact", "DefineSavepoint", stmt.fails)>>)
      [] stmt.sub = "TRANS_STMT_RELEASE" ->
            Then(RequireTransactionChain(isTopLevel, e),
                 Callee("xact", "ReleaseSavepoint", stmt.fails))
      [] stmt.sub = "TRANS_STMT_ROLLBACK_TO" ->
            Then(RequireTransactionChain(isTopLevel, e),
                 Callee("xact", "RollbackToSavepoint", stmt.fails))
      [] OTHER -> <<>>

TransactionStmt_RollbackCommits(r, e) ==
    LET stmt == r.stmt
        isTopLevel == r.context = "TOPLEVEL"
    IN
    CASE stmt.sub \in {"TRANS_STMT_BEGIN", "TRANS_STMT_START"} ->
            Callee("xact", "BeginTransactionBlock", stmt.fails)
      [] stmt.sub = "TRANS_STMT_COMMIT" ->
            Then(Callee("xact", "EndTransactionBlock", stmt.fails),
                 IF stmt.flag THEN SetTag(r, "ROLLBACK") ELSE <<>>)
      [] stmt.sub = "TRANS_STMT_PREPARE" ->
            RunAll(<<PreventCommandDuringRecovery(e),
                     Callee("xact", "PrepareTransactionBlock", stmt.fails),
                     IF stmt.flag THEN SetTag(r, "ROLLBACK") ELSE <<>> >>)
      [] stmt.sub = "TRANS_STMT_COMMIT_PREPARED" ->
            RunAll(<<PreventTransactionChain(isTopLevel, e),
                     PreventCommandDuringRecovery(e),
                     <<Ev("phase", "2")>>,
                     FinishPreparedTransactionExt(stmt.gid, TRUE,
                                                  stmt.missing_ok, stmt.fails),
                     <<Ev("phase", "1")>> >>)
      [] stmt.sub = "TRANS_STMT_ROLLBACK_PREPARED" ->
            RunAll(<<PreventTransactionChain(isTopLevel, e),
                     PreventCommandDuringRecovery(e),
                     <<Ev("phase", "2")>>,
                     FinishPreparedTransactionExt(stmt.gid, TRUE, 
                                                  stmt.missing_ok, stmt.fails),
                     <<Ev("phase", "1")>> >>)
      [] stmt.sub = "TRANS_STMT_ROLLBACK" ->
            Callee("xact", "UserAbortTransactionBlock", stmt.fails)
      [] stmt.sub = "TRANS_STMT_SAVEPOINT" ->
            RunAll(<<Err("StatementTooComplex"),
                     RequireTransactionChain(isTopLevel, e),
                     Callee("xact", "DefineSavepoint", stmt.fails)>>)
      [] stmt.sub = "TRANS_STMT_RELEASE" ->
            Then(RequireTransactionChain(isTopLevel, e),
                 Callee("xact", "ReleaseSavepoint", stmt.fails))
      [] stmt.sub = "TRANS_STMT_ROLLBACK_TO" ->
            Then(RequireTransactionChain(isTopLevel, e),
                 Callee("xact", "RollbackToSavepoint", stmt.fails))
      [] OTHER -> <<>>

TransactionStmt_SavepointUpstream(r, e) ==
    LET stmt == r.stmt
        isTopLevel == r.context = "TOPLEVEL"
    IN
    CASE stmt.sub \in {"TRANS_STMT_BEGIN", "TRANS_STMT_START"} ->
            Callee("xact", "BeginTransactionBlock", stmt.fails)
      [] stmt.sub = "TRANS_STMT_COMMIT" ->
            Then(Callee("xact", "EndTransactionBlock", stmt.fails),
                 IF stmt.flag THEN SetTag(r, "ROLLBACK") ELSE <<>>)
      [] stmt.sub = "TRANS_STMT_PREPARE" ->
            RunAll(<<PreventCommandDuringRecovery(e),
                     Callee("xact", "PrepareTransactionBlock", stmt.fails),
                     IF stmt.flag THEN SetTag(r, "ROLLBACK") ELSE <<>> >>)
      [] stmt.sub = "TRANS_STMT_COMMIT_PREPARED" ->
            RunAll(<<PreventTransactionChain(isTopLevel, e),
                     PreventCommandDuringRecovery(e),
                     <<Ev("phase", "2")>>,
                     FinishPreparedTransactionExt(stmt.gid, TRUE,
                                                  stmt.missing_ok, stmt.fails),
                     <<Ev("phase", "1")>> >>)
      [] stmt.sub = "TRANS_STMT_ROLLBACK_PREPARED" ->
            RunAll(<<PreventTransactionChain(isTopLevel, e),
                     PreventCommandDuringRecovery(e),
                     <<Ev("phase", "2")>>,
                     FinishPreparedTransactionExt(stmt.gid, FALSE,
                                                  stmt.missing_ok, stmt.fails),
                     <<Ev("phase", "1")>> >>)
      [] stmt.sub = "TRANS_STMT_ROLLBACK" ->
            Callee("xact", "UserAbortTransactionBlock", stmt.fails)
      [] stmt.sub = "TRANS_STMT_SAVEPOINT" ->
            RunAll(<<RequireTransactionChain(isTopLevel, e),
                     Callee("xact", "DefineSavepoint", stmt.fails)>>)
      [] stmt.sub = "TRANS_STMT_RELEASE" ->
            Then(RequireTransactionChain(isTopLevel, e),
                 Callee("xact", "ReleaseSavepoint", stmt.fails))
      [] stmt.sub = "TRANS_STMT_ROLLBACK_TO" ->
            Then(RequireTransactionChain(isTopLevel, e),
                 Callee("xact", "RollbackToSavepoint", stmt.fails))
      [] OTHER -> <<>>

\* stmt.flag: the transaction manager reports the commit / prepare as failed
TransactionStmt(r, e) ==
    LET stmt == r.stmt
        isTopLevel == r.context = "TOPLEVEL"
    IN
    CASE stmt.sub \in {"TRANS_STMT_BEGIN", "TRANS_STMT_START"} ->
            Callee("xact", "BeginTransactionBlock", stmt.fails)
      [] stmt.sub = "TRANS_STMT_COMMIT" ->
            Then(Callee("xact", "EndTransactionBlock", stmt.fails),
                 IF stmt.flag THEN SetTag(r, "ROLLBACK") ELSE <<>>)
      [] stmt.sub = "TRANS_STMT_PREPARE" ->
            RunAll(<<PreventCommandDuringRecovery(e),
                     Callee("xact", "PrepareTransactionBlock", stmt.fails),
                     IF stmt.flag THEN SetTag(r, "ROLLBACK") ELSE <<>> >>)
      [] stmt.sub = "TRANS_STMT_COMMIT_PREPARED" ->
            RunAll(<<PreventTransactionChain(isTopLevel, e),
                     PreventCommandDuringRecovery(e),
                     <<Ev("phase", "2")>>,
                     FinishPreparedTransactionExt(stmt.gid, TRUE,
                                                  stmt.missing_ok, stmt.fails),
                     <<Ev("phase", "1")>> >>)
      [] stmt.sub = "TRANS_STMT_ROLLBACK_PREPARED" ->
            RunAll(<<PreventTransactionChain(isTopLevel, e),
                     PreventCommandDuringRecovery(e),
                     <<Ev("phase", "2")>>,
                     FinishPreparedTransactionExt(stmt.gid, FALSE,
                                                  stmt.missing_ok, stmt.fails),
                     <<Ev("phase", "1")>> >>)
      [] stmt.sub = "TRANS_STMT_ROLLBACK" ->
            Callee("xact", "UserAbortTransactionBlock", stmt.fails)
      [] stmt.sub = "TRANS_STMT_SAVEPOINT" ->
            RunAll(<<Err("StatementTooComplex"),
                     RequireTransactionChain(isTopLevel, e),
                     Callee("xact", "DefineSavepoint", stmt.fails)>>)
      [] stmt.sub = "TRANS_STMT_RELEASE" ->
            Then(RequireTransactionChain(isTopLevel, e),
                 Callee("xact", "ReleaseSavepoint", stmt.fails))
      [] stmt.sub = "TRANS_STMT_ROLLBACK_TO" ->
            Then(RequireTransactionChain(isTopLevel, e),
                 Callee("xact", "RollbackToSavepoint", stmt.fails))
      [] OTHER -> <<>>

(***************************************************************************)
(* standard_ProcessUtility: the cases handled without event triggers       *)
(***************************************************************************)
\* utilityContext after the assignments a case makes before dispatching
Target(c, exec_type, is_temp) ==
    [c EXCEPT !.exec_type = exec_type, !.is_temp = is_temp]

Autocommit(c, force_autocommit) ==
    [c EXCEPT !.force_autocommit = force_autocommit]

WithStmt(c) == [c EXCEPT !.stmt = TRUE]

RelationUsesLocalBuffers(name) == IsTempTable(RangeVarGetRelid(name))

\* kinds whose case is the command handler alone
LocalOnlyKinds ==
    {"T_FetchStmt", "T_DoStmt", "T_ExecuteStmt", "T_ExplainStmt",
     "T_VariableShowStmt", "T_TruncateStmt", "T_AlterNodeStmt",
     "T_CreateNodeStmt", "T_DropNodeStmt", "T_CreateGroupStmt",
     "T_DropGroupStmt"}

\* kinds whose case is the command handler, then ExecRemoteUtilityStmt with
\* the utilityContext as initialised
LocalThenRemoteKinds ==
    {"T_GrantRoleStmt", "T_AlterDatabaseStmt", "T_AlterDatabaseSetStmt",
     "T_CreateEventTrigStmt", "T_AlterEventTrigStmt", "T_CreateRoleStmt",
     "T_AlterRoleStmt", "T_AlterRoleSetStmt", "T_DropRoleStmt",
     "T_ReassignOwnedStmt"}

T_PlannedStmt(r, e) ==
    Then(Guard(~r.stmt.flag, "InternalError"), Local("PerformCursorOpen", r))

T_ClosePortalStmt(r, e) ==
    Then(CheckRestrictedOperation(e), Local("PerformPortalClose", r))

T_CreateTableSpaceStmt_Autocommit(r, e) ==
    RunAll(<<IF IsCoordMaster(e)
             THEN PreventTransactionChain(r.context = "TOPLEVEL", e) ELSE <<>>,
             Local(r.stmt.kind, r),
             ExecRemoteUtilityStmt(Autocommit(UtilityContext(r), TRUE), e)>>)

T_CreateTableSpaceStmt(r, e) ==
    RunAll(<<IF IsCoordMaster(e)
             THEN PreventTransactionChain(r.context = "TOPLEVEL", e) ELSE <<>>,
             Local(r.stmt.kind, r),
             ExecRemoteUtilityStmt(UtilityContext(r), e)>>)

T_AlterTableSpaceOptionsStmt(r, e) ==
    Then(Local("AlterTableSpaceOptions", r),
         ExecRemoteUtilityStmt(Autocommit(UtilityContext(r), TRUE), e))

T_CopyStmt(r, e) == Then(Local("DoCopy", r), SetTag(r, "COPY"))

T_PrepareStmt(r, e) ==
    Then(CheckRestrictedOperation(e), Local(r.stmt.kind, r))

\* the clean-connection request written into the utilityContext itself
T_DropdbStmt_SharedContext(r, e) ==
    LET rcontext == Autocommit(Target([UtilityContext(r) EXCEPT
                                          !.query = "CLEAN CONNECTION"],
                                      EXEC_ON_COORDS, FALSE), TRUE)
    IN
    RunAll(<<IF IsCoordMaster(e)
             THEN PreventTransactionChain(r.context = "TOPLEVEL", e) ELSE <<>>,
             Local("dropdb", r),
             IF IsCoordMaster(e)
             THEN Then(<<Ev("local", "DropDBCleanConnection")>>,
                       ExecRemoteUtilityStmt(rcontext, e))
             ELSE <<>>,
             IF IsCoordMaster(e)
             THEN <<Ev("local", "agtms_DropSequenceByDataBase")>> ELSE <<>>,
             ExecRemoteUtilityStmt(
                 IF IsCoordMaster(e)
                 THEN [rcontext EXCEPT !.query = r.stmt.kind]
                 ELSE UtilityContext(r), e)>>)

T_DropdbStmt(r, e) ==
    LET rcontext == Autocommit(Target([UtilityContext(r) EXCEPT
                                          !.query = "CLEAN CONNECTION"],
                                      EXEC_ON_COORDS, FALSE), TRUE)
    IN
    RunAll(<<IF IsCoordMaster(e)
             THEN PreventTransactionChain(r.context = "TOPLEVEL", e) ELSE <<>>,
             Local("dropdb", r),
             IF IsCoordMaster(e)
             THEN Then(<<Ev("local", "DropDBCleanConnection")>>,
                       ExecRemoteUtilityStmt(rcontext, e))
             ELSE <<>>,
             IF IsCoordMaster(e)
             THEN <<Ev("local", "agtms_DropSequenceByDataBase")>> ELSE <<>>,
             ExecRemoteUtilityStmt(UtilityContext(r), e)>>)

T_NotifyStmt(r, e) ==
    Then(PreventCommandDuringRecovery(e), Local("Async_Notify", r))

T_ListenStmt(r, e) ==
    RunAll(<<PreventCommandDuringRecovery(e), CheckRestrictedOperation(e),
             Local(r.stmt.kind, r)>>)

T_LoadStmt(r, e) ==
    Then(Local("load_file", r),
         ExecRemoteUtilityStmt(
             Target(UtilityContext(r), EXEC_ON_DATANODES, FALSE), e))

\* stmt.flag2: RelationGetLocInfo(rel) != NULL
T_ClusterStmt(r, e) ==
    LET need_remote == IF r.stmt.relation # "none" THEN r.stmt.flag2 ELSE TRUE
    IN
    RunAll(<<PreventCommandDuringRecovery(e),
             Local("cluster", r),
             IF IsCoordMaster(e) /\ need_remote
             THEN ExecRemoteUtilityStmt(
                      Autocommit(Target(UtilityContext(r), EXEC_ON_DATANODES,
                                        FALSE), TRUE), e)
             ELSE <<>> >>)

T_VacuumStmt_LocalFirst(r, e) ==
    LET vacuum_rel == RangeVarGetRelid(r.stmt.relation) IN
    RunAll(<<PreventCommandDuringRecovery(e),
             Local("ExecVacuum", r),
             IF IsCoordMaster(e) /\ r.stmt.relation # "none"
                /\ OidIsValid(vacuum_rel)
                /\ get_rel_relkind(vacuum_rel) # RELKIND_MATVIEW
                /\ r.stmt.flag2
             THEN ExecRemoteUtilityStmt(
                      Autocommit(Target(UtilityContext(r), EXEC_ON_DATANODES,
                                        FALSE), TRUE), e)
             ELSE <<>> >>)

T_VacuumStmt(r, e) ==
    LET vacuum_rel == RangeVarGetRelid(r.stmt.relation) IN
    RunAll(<<PreventCommandDuringRecovery(e),
             IF IsCoordMaster(e) /\ r.stmt.relation # "none"
                /\ OidIsValid(vacuum_rel)
                /\ get_rel_relkind(vacuum_rel) # RELKIND_MATVIEW
                /\ r.stmt.flag2
             THEN ExecRemoteUtilityStmt(
                      Autocommit(Target(UtilityContext(r), EXEC_ON_DATANODES,
                                        FALSE), TRUE), e)
             ELSE <<>>,
             Local("ExecVacuum", r)>>)

T_AlterSystemStmt(r, e) ==
    Then(PreventTransactionChain(r.context = "TOPLEVEL", e),
         Local("AlterSystemSetConfigFile", r))

\* stmt.sub: the variable's name; stmt.flag: is_local; stmt.flag2: the pool
\* manager reports a failure
PoolManagerSetCommand(cmd, stmt) ==
    Then(<<Ev("poolSet", cmd)>>, Guard(stmt.flag2, "InternalError"))

T_VariableSetStmt_LocalAlways(r, e) ==
    Then(Local("ExecSetVariableStmt", r),
         IF ~IsCoordMaster(e) THEN <<>>
         ELSE IF r.stmt.sub = "grammar" THEN <<>>
         ELSE IF r.stmt.flag
         THEN PoolManagerSetCommand("POOL_CMD_LOCAL_SET", r.stmt)
         ELSE PoolManagerSetCommand("POOL_CMD_GLOBAL_SET", r.stmt))

T_VariableSetStmt(r, e) ==
    Then(Local("ExecSetVariableStmt", r),
         IF ~IsCoordMaster(e) THEN <<>>
         ELSE IF r.stmt.sub = "grammar" THEN <<>>
         ELSE IF r.stmt.flag
         THEN IF e.xactBlock
              THEN PoolManagerSetCommand("POOL_CMD_LOCAL_SET", r.stmt)
              ELSE <<>>
         ELSE PoolManagerSetCommand("POOL_CMD_GLOBAL_SET", r.stmt))

T_DiscardStmt(r, e) ==
    RunAll(<<CheckRestrictedOperation(e), Local("DiscardCommand", r),
             ExecRemoteUtilityStmt(Autocommit(UtilityContext(r), TRUE), e)>>)

T_LockStmt_HandlerFirst(r, e) ==
    RunAll(<<Local("LockTableCommand", r),
             RequireTransactionChain(r.context = "TOPLEVEL", e),
             ExecRemoteUtilityStmt(UtilityContext(r), e)>>)

T_LockStmt(r, e) ==
    RunAll(<<RequireTransactionChain(r.context = "TOPLEVEL", e),
             Local("LockTableCommand", r),
             ExecRemoteUtilityStmt(UtilityContext(r), e)>>)

T_ConstraintsSetStmt(r, e) ==
    Then(Local("AfterTriggerSetState", r),
         IF e.xactBlock THEN ExecRemoteUtilityStmt(UtilityContext(r), e)
         ELSE <<>>)

T_CheckPointStmt(r, e) ==
    RunAll(<<Guard(~e.superuser, "InsufficientPrivilege"),
             Local("RequestCheckpoint", r),
             ExecRemoteUtilityStmt(
                 Autocommit(Target(UtilityContext(r), EXEC_ON_DATANODES,
                                   FALSE), TRUE), e)>>)

T_ReindexStmt(r, e) ==
    LET kind == r.stmt.sub
        onRelation == kind \in {"REINDEX_OBJECT_INDEX", "REINDEX_OBJECT_TABLE"}
        send_to_remote ==
            ~(onRelation /\ RelationUsesLocalBuffers(r.stmt.relation))
    IN
    RunAll(<<PreventCommandDuringRecovery(e),
             CASE onRelation -> Local(kind, r)
               [] kind \in {"REINDEX_OBJECT_SCHEMA", "REINDEX_OBJECT_SYSTEM",
                            "REINDEX_OBJECT_DATABASE"} ->
                    Then(PreventTransactionChain(r.context = "TOPLEVEL", e),
                         Local("ReindexMultipleTables", r))
               [] OTHER -> Err("InternalError"),
             IF send_to_remote
             THEN ExecRemoteUtilityStmt(
                      Autocommit(UtilityContext(r),
                                 kind \in {"REINDEX_OBJECT_DATABASE",
                                           "REINDEX_OBJECT_SCHEMA"}), e)
             ELSE <<>> >>)

T_RemoteQuery_Unguarded(r, e) ==
    ExecInterXactUtility(
        [Target(UtilityContext(r), r.stmt.exec, r.stmt.temp) EXCEPT
            !.stmt = TRUE, !.query = "T_RemoteQuery",
            !.remoteFails = r.stmt.fails])

\* the node's own step goes to the transport, whatever sentToRemote says
T_RemoteQuery(r, e) ==
    IF ~e.connFromCoord
    THEN ExecInterXactUtility(
             [Target(UtilityContext(r), r.stmt.exec, r.stmt.temp) EXCEPT
                 !.stmt = TRUE, !.query = "T_RemoteQuery",
                 !.remoteFails = r.stmt.fails])
    ELSE <<>>

T_CleanConnStmt(r, e) ==
    Then(Local("CleanConnection", r),
         ExecRemoteUtilityStmt(
             Autocommit(Target(UtilityContext(r), EXEC_ON_COORDS, FALSE),
                        TRUE), e))

(***************************************************************************)
(* Placement helpers of single statements                                  *)
(***************************************************************************)
\* stmt.relation is the relation the rule is defined on; undef is what the
\* caller's uninitialised is_temp holds when the function leaves it unset
GetNodesForRulesUtility(relation, undef) ==
    LET relid == RangeVarGetRelid(relation) IN
    IF ~OidIsValid(relid) THEN Placement(EXEC_ON_NONE, undef)
    ELSE ExecUtilityFindNodes("OBJECT_RULE", relid)

\* the read of relation->rd_id through a null pointer: undefined behaviour
NullRead == <<Ev("dereference", "NULL")>>

GetNodesForCommentUtility_SafeOrder(stmt) ==
    IF stmt.objtype = "OBJECT_DATABASE"
    THEN PreResult(<<>>, FALSE, EXEC_ON_ALL_NODES)
    ELSE IF stmt.relation = "nx"
    THEN PreResult(Err("UndefinedObject"), FALSE, EXEC_ON_ALL_NODES)
    ELSE IF stmt.objtype = "OBJECT_RULE" /\ stmt.flag
    THEN PreResult(<<Ev("WARNING", "UndefinedObject")>>, FALSE,
                   EXEC_ON_ALL_NODES)
    ELSE LET loc == ExecUtilityFindNodes(stmt.objtype, stmt.relation)
         IN PreResult(<<>>, loc.is_temp, loc.exec_type)

\* stmt.relation names the commented object (for a rule, its relation);
\* "nx" is a name get_object_address does not resolve.  stmt.flag:
\* get_object_address handed back no relation (relation == NULL); stmt.sub
\* is then what the build makes of reading relation->rd_id: "SIGSEGV", or
\* the oid it reads
GetNodesForCommentUtility(stmt) ==
    IF stmt.objtype = "OBJECT_DATABASE"
    THEN PreResult(<<>>, FALSE, EXEC_ON_ALL_NODES)
    ELSE IF stmt.relation = "nx"
    THEN PreResult(Err("UndefinedObject"), FALSE, EXEC_ON_ALL_NODES)
    ELSE IF stmt.objtype = "OBJECT_RULE" /\ stmt.flag
    THEN \* !relation holds, so !OidIsValid(relation->rd_id) is evaluated
         IF stmt.sub = "SIGSEGV"
         THEN PreResult(NullRead \o Err("SIGSEGV"), FALSE, EXEC_ON_ALL_NODES)
         ELSE IF ~OidIsValid(stmt.sub)
         THEN PreResult(NullRead \o <<Ev("WARNING", "UndefinedObject")>>,
                        FALSE, EXEC_ON_ALL_NODES)
         ELSE \* object_id = RelationGetRelid(relation) reads it again
              LET loc == ExecUtilityFindNodes(stmt.objtype, stmt.sub)
              IN PreResult(NullRead \o NullRead, loc.is_temp, loc.exec_type)
    ELSE LET loc == ExecUtilityFindNodes(stmt.objtype, stmt.relation)
         IN PreResult(<<>>, loc.is_temp, loc.exec_type)

IsAlterTableStmtRedistribution(atstmt) ==
    \A i \in 1..Len(atstmt.cmds) :
        atstmt.cmds[i] \in {"AT_SubCluster", "AT_AddNodeList",
                            "AT_DeleteNodeList"}

\* appends the step that carries the statement to the remote nodes; tree
\* names the parse tree the step is built from
AddRemoteParseTree(stmts, tree, exec_type, is_temp) ==
    Append(stmts, [Stmt0 EXCEPT !.kind = "T_RemoteQuery", !.sub = tree,
                                !.exec = exec_type, !.temp = is_temp])

\* the call of AddRemoteParseTree, as an event of the trace
Injection(tree, exec_type, is_temp) ==
    <<[Ev("AddRemoteParseTree", tree) EXCEPT !.exec = exec_type,
                                             !.temp = is_temp]>>

RECURSIVE CreateStmtPlacement_ForeignAfterTemp(_, _, _, _)
CreateStmtPlacement_ForeignAfterTemp(stmts, n, is_first, is_temp) ==
    IF n > Len(stmts) THEN PreResult(<<>>, is_temp, EXEC_ON_ALL_NODES)
    ELSE
      LET stmt == stmts[n] IN
      IF stmt.kind = "T_CreateStmt"
      THEN IF stmt.temp /\ stmt.flag2
           THEN PreResult(Err("SyntaxError"), is_temp, EXEC_ON_ALL_NODES)
           ELSE IF is_first
           THEN CreateStmtPlacement_ForeignAfterTemp(stmts, n + 1, FALSE,
                                                     stmt.temp)
           ELSE IF stmt.temp # is_temp
           THEN PreResult(Err("MixedPlacementError"), is_temp,
                          EXEC_ON_ALL_NODES)
           ELSE CreateStmtPlacement_ForeignAfterTemp(stmts, n + 1, FALSE,
                                                     is_temp)
      ELSE IF stmt.kind = "T_CreateForeignTableStmt"
      THEN IF is_first
           THEN CreateStmtPlacement_ForeignAfterTemp(stmts, n + 1, FALSE,
                                                     is_temp)
           ELSE IF is_temp
           THEN PreResult(Err("MixedPlacementError"), is_temp,
                          EXEC_ON_ALL_NODES)
           ELSE CreateStmtPlacement_ForeignAfterTemp(stmts, n + 1, FALSE,
                                                     is_temp)
      ELSE CreateStmtPlacement_ForeignAfterTemp(stmts, n + 1, is_first,
                                                is_temp)

RECURSIVE CreateStmtPlacement(_, _, _, _)
\* the temp / non-temp consistency loop over the expansion of CREATE TABLE
CreateStmtPlacement(stmts, n, is_first, is_temp) ==
    IF n > Len(stmts) THEN PreResult(<<>>, is_temp, EXEC_ON_ALL_NODES)
    ELSE
      LET stmt == stmts[n] IN
      IF stmt.kind = "T_CreateStmt"
      THEN IF stmt.temp /\ stmt.flag2
           THEN PreResult(Err("SyntaxError"), is_temp, EXEC_ON_ALL_NODES)
           ELSE IF is_first
           THEN CreateStmtPlacement(stmts, n + 1, FALSE, stmt.temp)
           ELSE IF stmt.temp # is_temp
           THEN PreResult(Err("MixedPlacementError"), is_temp,
                          EXEC_ON_ALL_NODES)
           ELSE CreateStmtPlacement(stmts, n + 1, FALSE, is_temp)
      ELSE IF stmt.kind = "T_CreateForeignTableStmt"
      THEN IF is_first
           THEN CreateStmtPlacement(stmts, n + 1, FALSE, is_temp)
           ELSE IF ~is_temp
           THEN PreResult(Err("MixedPlacementError"), is_temp,
                          EXEC_ON_ALL_NODES)
           ELSE CreateStmtPlacement(stmts, n + 1, FALSE, is_temp)
      ELSE CreateStmtPlacement(stmts, n + 1, is_first, is_temp)

RECURSIVE GrantStmtObjects_LastWins(_, _, _, _, _)
GrantStmtObjects_LastWins(stmt, n, first, type_local, is_temp) ==
    IF n > Len(stmt.objects) THEN PreResult(<<>>, is_temp, type_local)
    ELSE
      LET relid == RangeVarGetRelid(stmt.objects[n])
          loc == ExecUtilityFindNodesRelkind(relid)
      IN
      IF ~OidIsValid(relid)
      THEN GrantStmtObjects_LastWins(stmt, n + 1, first, type_local, is_temp)
      ELSE IF first
      THEN GrantStmtObjects_LastWins(stmt, n + 1, FALSE, loc.exec_type, loc.is_temp)
      ELSE GrantStmtObjects_LastWins(stmt, n + 1, FALSE, loc.exec_type,
                                     loc.is_temp)

RECURSIVE GrantStmtObjects(_, _, _, _, _)
\* the placement loop of GRANT over stmt->objects, from cell n on
GrantStmtObjects(stmt, n, first, type_local, is_temp) ==
    IF n > Len(stmt.objects) THEN PreResult(<<>>, is_temp, type_local)
    ELSE
      LET relid == RangeVarGetRelid(stmt.objects[n])
          loc == ExecUtilityFindNodesRelkind(relid)
      IN
      IF ~OidIsValid(relid)
      THEN GrantStmtObjects(stmt, n + 1, first, type_local, is_temp)
      ELSE IF first
      THEN GrantStmtObjects(stmt, n + 1, FALSE, loc.exec_type, loc.is_temp)
      ELSE IF type_local # loc.exec_type \/ is_temp # loc.is_temp
      THEN PreResult(Err("MixedPlacementError"), is_temp, type_local)
      ELSE GrantStmtObjects(stmt, n + 1, FALSE, type_local, is_temp)

\* placement of RENAME / ALTER ... DEPENDS ON / ALTER ... SET SCHEMA
RenamePlacement(stmt) ==
    IF stmt.relation # "none"
    THEN LET relid == RangeVarGetRelid(stmt.relation) IN
         IF OidIsValid(relid) THEN ExecUtilityFindNodes(stmt.objtype, relid)
         ELSE Placement(EXEC_ON_NONE, FALSE)
    ELSE ExecUtilityFindNodes(stmt.objtype, InvalidOid)

(***************************************************************************)
(* Slow-Path Orchestrator                                                  *)
(***************************************************************************)
RECURSIVE ProcessUtility(_, _)

\* tagged with the case that makes the call
CommandCounterIncrement(case) == <<Ev("CommandCounterIncrement", case)>>

EventTriggerCollectSimpleCommand(who) ==
    <<Ev("EventTriggerCollectSimpleCommand", who)>>

EventTriggerAlterTableStart ==
    <<Ev("EventTriggerAlterTableStart", "-"),
      Ev("EventTriggerAlterTableRelid", "-")>>

EventTriggerAlterTableEnd == <<Ev("EventTriggerAlterTableEnd", "-")>>

SubCommand_NotForwarded(stmt, e) ==
    ProcessUtility(Request(stmt, "SUBCOMMAND", FALSE, FALSE), e)

\* a sub-statement call: context SUBCOMMAND, sentToRemote true, no tag
SubCommand(stmt, e) ==
    ProcessUtility(Request(stmt, "SUBCOMMAND", TRUE, FALSE), e)

RECURSIVE CreateStmtLoop(_, _, _)

CreateStmtLoop_BetweenOnly(stmts, n, e) ==
    IF n > Len(stmts) THEN <<>>
    ELSE
      LET stmt == stmts[n]
          step ==
            CASE stmt.kind = "T_CreateStmt" ->
                   RunAll(<<Callee("local", "DefineRelation", stmt.fails),
                            EventTriggerCollectSimpleCommand("handler"),
                            <<Ev("local", "NewRelationCreateToastTable")>> >>)
              [] stmt.kind = "T_CreateForeignTableStmt" ->
                   RunAll(<<Callee("local", "DefineRelation", stmt.fails),
                            <<Ev("local", "CreateForeignTable")>>,
                            EventTriggerCollectSimpleCommand("handler")>>)
              [] OTHER -> SubCommand(stmt, e)
      IN RunAll(<<step,
                  IF n < Len(stmts) THEN CommandCounterIncrement("T_CreateStmt")
                  ELSE <<>>,
                  CreateStmtLoop(stmts, n + 1, e)>>)

\* the execution loop of CREATE TABLE over the expansion, from cell n on
CreateStmtLoop(stmts, n, e) ==
    IF n > Len(stmts) THEN <<>>
    ELSE
      LET stmt == stmts[n]
          step ==
            CASE stmt.kind = "T_CreateStmt" ->
                   RunAll(<<Callee("local", "DefineRelation", stmt.fails),
                            EventTriggerCollectSimpleCommand("handler"),
                            CommandCounterIncrement("T_CreateStmt"),
                            <<Ev("local", "NewRelationCreateToastTable")>> >>)
              [] stmt.kind = "T_CreateForeignTableStmt" ->
                   RunAll(<<Callee("local", "DefineRelation", stmt.fails),
                            <<Ev("local", "CreateForeignTable")>>,
                            EventTriggerCollectSimpleCommand("handler")>>)
              [] OTHER -> SubCommand(stmt, e)
      IN RunAll(<<step,
                  IF n < Len(stmts) THEN CommandCounterIncrement("T_CreateStmt")
                  ELSE <<>>,
                  CreateStmtLoop(stmts, n + 1, e)>>)

T_CreateStmt_TempBlind(r, e) ==
    LET pre == IF IsCoordMaster(e)
               THEN CreateStmtPlacement(r.stmt.stmts, 1, TRUE, FALSE)
               ELSE PreResult(<<>>, FALSE, EXEC_ON_ALL_NODES)
        \* stmt.flag: transformCreateStmt handed back a transformed statement
        tree == IF r.stmt.flag THEN "transformed_stmt" ELSE "parsetree"
        add == ~r.sentToRemote
        stmts == IF add
                 THEN AddRemoteParseTree(r.stmt.stmts, tree, EXEC_ON_ALL_NODES,
                                         pre.is_temp)
                 ELSE r.stmt.stmts
    IN RunAll(<<pre.trace,
                IF add THEN Injection(tree, EXEC_ON_ALL_NODES, pre.is_temp)
                ELSE <<>>,
                CreateStmtLoop(stmts, 1, e)>>)

T_CreateStmt(r, e) ==
    LET pre == IF IsCoordMaster(e)
               THEN CreateStmtPlacement(r.stmt.stmts, 1, TRUE, FALSE)
               ELSE PreResult(<<>>, FALSE, EXEC_ON_ALL_NODES)
        \* stmt.flag: transformCreateStmt handed back a transformed statement
        tree == IF r.stmt.flag THEN "transformed_stmt" ELSE "parsetree"
        add == ~r.sentToRemote /\ ~pre.is_temp
        stmts == IF add
                 THEN AddRemoteParseTree(r.stmt.stmts, tree, EXEC_ON_ALL_NODES,
                                         pre.is_temp)
                 ELSE r.stmt.stmts
    IN RunAll(<<pre.trace,
                IF add THEN Injection(tree, EXEC_ON_ALL_NODES, pre.is_temp)
                ELSE <<>>,
                CreateStmtLoop(stmts, 1, e)>>)

RECURSIVE AlterTableLoop(_, _, _)

AlterTableLoop_ContextKeptOpen(stmts, n, e) ==
    IF n > Len(stmts) THEN <<>>
    ELSE
      LET stmt == stmts[n]
          step ==
            IF stmt.kind = "T_AlterTableStmt"
            THEN Callee("local", "AlterTable", stmt.fails)
            ELSE SubCommand(stmt, e)
      IN RunAll(<<step,
                  IF n < Len(stmts)
                  THEN CommandCounterIncrement("T_AlterTableStmt") ELSE <<>>,
                  AlterTableLoop(stmts, n + 1, e)>>)

\* the execution loop of ALTER TABLE over the expansion, from cell n on
AlterTableLoop(stmts, n, e) ==
    IF n > Len(stmts) THEN <<>>
    ELSE
      LET stmt == stmts[n]
          step ==
            IF stmt.kind = "T_AlterTableStmt"
            THEN Callee("local", "AlterTable", stmt.fails)
            ELSE RunAll(<<EventTriggerAlterTableEnd,
                          SubCommand(stmt, e),
                          EventTriggerAlterTableStart>>)
      IN RunAll(<<step,
                  IF n < Len(stmts)
                  THEN CommandCounterIncrement("T_AlterTableStmt") ELSE <<>>,
                  AlterTableLoop(stmts, n + 1, e)>>)

T_AlterTableStmt(r, e) ==
    LET atstmt == r.stmt
        relid == RangeVarGetRelid(atstmt.relation)
        loc == ExecUtilityFindNodes(atstmt.objtype, relid)
        exec_type == IF atstmt.objtype = "OBJECT_TABLE"
                        /\ IsAlterTableStmtRedistribution(atstmt)
                     THEN EXEC_ON_COORDS ELSE loc.exec_type
        add == ~r.sentToRemote /\ ~loc.is_temp
        stmts == IF add
                 THEN AddRemoteParseTree(atstmt.stmts, "parsetree", exec_type,
                                         loc.is_temp)
                 ELSE atstmt.stmts
    IN
    IF OidIsValid(relid)
    THEN RunAll(<<IF add THEN Injection("parsetree", exec_type, loc.is_temp)
                  ELSE <<>>,
                  EventTriggerAlterTableStart,
                  AlterTableLoop(stmts, 1, e),
                  EventTriggerAlterTableEnd>>)
    ELSE Guard(~atstmt.missing_ok, "UndefinedObject")

\* cases of the slow path: the command handler, then ExecRemoteUtilityStmt
\* with the utilityContext as initialised
SlowLocalThenRemoteKinds ==
    {"T_AlterDomainStmt", "T_DefineStmt", "T_CreateExtensionStmt",
     "T_AlterExtensionStmt", "T_AlterExtensionContentsStmt", "T_CreateFdwStmt",
     "T_AlterFdwStmt", "T_CreateForeignServerStmt", "T_AlterForeignServerStmt",
     "T_CreateUserMappingStmt", "T_AlterUserMappingStmt",
     "T_DropUserMappingStmt", "T_CompositeTypeStmt", "T_CreateEnumStmt",
     "T_CreateRangeStmt", "T_AlterEnumStmt", "T_CreateFunctionStmt",
     "T_AlterFunctionStmt", "T_CreatePLangStmt", "T_CreateDomainStmt",
     "T_CreateConversionStmt", "T_CreateCastStmt", "T_CreateOpClassStmt",
     "T_CreateOpFamilyStmt", "T_CreateTransformStmt", "T_AlterOpFamilyStmt",
     "T_AlterTSDictionaryStmt", "T_AlterTSConfigurationStmt",
     "T_AlterTableMoveAllStmt", "T_DropOwnedStmt",
     "T_AlterDefaultPrivilegesStmt", "T_CreateAmStmt"}

\* cases of the slow path that are the command handler alone
SlowLocalOnlyKinds ==
    {"T_CreateSchemaStmt", "T_ImportForeignSchemaStmt", "T_RenameStmt",
     "T_AlterObjectDependsStmt", "T_AlterObjectSchemaStmt", "T_AlterOwnerStmt",
     "T_AlterOperatorStmt", "T_CommentStmt", "T_GrantStmt",
     "T_CreatePolicyStmt", "T_AlterPolicyStmt", "T_SecLabelStmt"}

\* cases that set commandCollected
CommandCollectedKinds ==
    {"T_CreateSchemaStmt", "T_CreateStmt", "T_CreateForeignTableStmt",
     "T_AlterTableStmt", "T_IndexStmt", "T_DropUserMappingStmt",
     "T_ImportForeignSchemaStmt", "T_ViewStmt", "T_CreateOpClassStmt",
     "T_AlterOpFamilyStmt", "T_AlterTSConfigurationStmt",
     "T_AlterTableMoveAllStmt", "T_DropStmt", "T_GrantStmt", "T_DropOwnedStmt",
     "T_AlterDefaultPrivilegesStmt"}

\* stmt.sub = "unrecognized": a subtype the inner switch does not know
SlowLocalThenRemote(r, e) ==
    RunAll(<<IF r.stmt.kind \in {"T_AlterDomainStmt", "T_DefineStmt"}
             THEN Guard(r.stmt.sub = "unrecognized", "InternalError")
             ELSE <<>>,
             Local(r.stmt.kind, r),
             IF r.stmt.kind = "T_AlterDefaultPrivilegesStmt"
             THEN <<Ev("EventTriggerCollectAlterDefPrivs", "-")>> ELSE <<>>,
             ExecRemoteUtilityStmt(UtilityContext(r), e)>>)

\* stmt.flag: concurrent; stmt.flag2: isconstraint
T_IndexStmt(r, e) ==
    LET relid == RangeVarGetRelid(r.stmt.relation)
        loc == IF OidIsValid(relid)
               THEN ExecUtilityFindNodes("OBJECT_INDEX", relid)
               ELSE Placement(EXEC_ON_NONE, FALSE)
    IN
    RunAll(<<Guard(r.stmt.flag, "FeatureNotSupported"),
             Guard(~OidIsValid(relid), "UndefinedObject"),
             EventTriggerAlterTableStart,
             Local("DefineIndex", r),
             EventTriggerCollectSimpleCommand("handler"),
             EventTriggerAlterTableEnd,
             IF ~r.stmt.flag2 /\ ~loc.is_temp
             THEN ExecRemoteUtilityStmt(
                      WithStmt(Autocommit(Target(UtilityContext(r),
                                                 loc.exec_type, loc.is_temp),
                                          r.stmt.flag)), e)
             ELSE <<>> >>)

\* stmt.temp: the view is declared temporary; stmt.flag: the created view
\* uses local buffers
T_ViewStmt(r, e) ==
    RunAll(<<EventTriggerAlterTableStart,
             Local("DefineView", r),
             EventTriggerCollectSimpleCommand("handler"),
             EventTriggerAlterTableEnd,
             IF ~r.stmt.temp /\ ~r.stmt.flag
             THEN ExecRemoteUtilityStmt(
                      WithStmt(Target(UtilityContext(r), EXEC_ON_COORDS,
                                      FALSE)), e)
             ELSE <<>> >>)

\* stmt.flag: what the uninitialised is_temp holds
T_RuleStmt(r, e) ==
    LET loc == GetNodesForRulesUtility(r.stmt.relation, r.stmt.flag) IN
    Then(Local("DefineRule", r),
         IF IsCoordMaster(e) /\ ~loc.is_temp
         THEN ExecRemoteUtilityStmt(
                  Target(UtilityContext(r), loc.exec_type, loc.is_temp), e)
         ELSE <<>>)

\* stmt.flag: is_serial
T_CreateSeqStmt(r, e) ==
    Then(Local("DefineSequence", r),
         IF e.pgxcCoord /\ ~r.stmt.flag /\ ~r.stmt.temp
         THEN ExecRemoteUtilityStmt(WithStmt(UtilityContext(r)), e)
         ELSE <<>>)

T_AlterSeqStmt(r, e) ==
    LET relid == RangeVarGetRelid(r.stmt.relation)
        loc == ExecUtilityFindNodes("OBJECT_SEQUENCE", relid)
    IN
    Then(Local("AlterSequence", r),
         IF e.pgxcCoord /\ ~r.stmt.flag /\ OidIsValid(relid) /\ ~loc.is_temp
         THEN ExecRemoteUtilityStmt(
                  Target(UtilityContext(r), loc.exec_type, loc.is_temp), e)
         ELSE <<>>)

\* stmt.flag: skipData
MatViewForward(r, e) ==
    IF ~r.stmt.flag /\ ~e.connFromCoord
    THEN <<Ev("pgxc_send_matview_data", r.stmt.kind)>>
    ELSE ExecRemoteUtilityStmt(
             Target(UtilityContext(r), EXEC_ON_COORDS, FALSE), e)

\* stmt.flag2: the handler returned an invalid address
T_CreateTableAsStmt(r, e) ==
    Then(LocalWithTag("ExecCreateTableAs", r),
         IF ~r.stmt.flag2 THEN MatViewForward(r, e) ELSE <<>>)

T_RefreshMatViewStmt(r, e) ==
    RunAll(<<<<Ev("EventTriggerInhibitCommandCollection", "-")>>,
             LET t == LocalWithTag("ExecRefreshMatView", r) IN
             IF Failed(t)
             THEN SubSeq(t, 1, Len(t) - 1)
                  \o <<Ev("EventTriggerUndoInhibitCommandCollection", "-"),
                       t[Len(t)]>>
             ELSE t \o <<Ev("EventTriggerUndoInhibitCommandCollection", "-")>>,
             MatViewForward(r, e)>>)

T_CreateTrigStmt_TempBlind(r, e) ==
    LET relid == RangeVarGetRelid(r.stmt.relation)
        loc == ExecUtilityFindNodes("OBJECT_TABLE", relid)
    IN
    Then(Local("CreateTrigger", r),
         IF e.pgxcCoord
         THEN Then(Guard(~OidIsValid(relid), "UndefinedObject"),
                   ExecRemoteUtilityStmt(
                       Target(UtilityContext(r), loc.exec_type,
                              loc.is_temp), e))
         ELSE <<>>)

T_CreateTrigStmt(r, e) ==
    LET relid == RangeVarGetRelid(r.stmt.relation)
        loc == ExecUtilityFindNodes("OBJECT_TABLE", relid)
    IN
    Then(Local("CreateTrigger", r),
         IF e.pgxcCoord
         THEN Then(Guard(~OidIsValid(relid), "UndefinedObject"),
                   IF ~loc.is_temp
                   THEN ExecRemoteUtilityStmt(
                            Target(UtilityContext(r), loc.exec_type,
                                   loc.is_temp), e)
                   ELSE <<>>)
         ELSE <<>>)

\* the switch of ProcessUtilitySlow
SlowSwitch(r, e) ==
    LET kind == r.stmt.kind IN
    CASE kind \in {"T_CreateStmt", "T_CreateForeignTableStmt"} ->
            T_CreateStmt(r, e)
      [] kind = "T_AlterTableStmt" -> T_AlterTableStmt(r, e)
      [] kind = "T_IndexStmt" -> T_IndexStmt(r, e)
      [] kind = "T_ViewStmt" -> T_ViewStmt(r, e)
      [] kind = "T_RuleStmt" -> T_RuleStmt(r, e)
      [] kind = "T_CreateSeqStmt" -> T_CreateSeqStmt(r, e)
      [] kind = "T_AlterSeqStmt" -> T_AlterSeqStmt(r, e)
      [] kind = "T_CreateTableAsStmt" -> T_CreateTableAsStmt(r, e)
      [] kind = "T_RefreshMatViewStmt" -> T_RefreshMatViewStmt(r, e)
      [] kind = "T_CreateTrigStmt" -> T_CreateTrigStmt(r, e)
      [] kind = "T_DropStmt" ->
            ExecDropStmt(r.stmt, r.sentToRemote, r.stmt.fails, e)
      [] kind \in SlowLocalThenRemoteKinds -> SlowLocalThenRemote(r, e)
      [] kind \in SlowLocalOnlyKinds -> Local(kind, r)
      [] OTHER -> Err("UnrecognizedStatementKind")

\* PG_TRY / PG_CATCH: the cleanup runs when the body returns, and before
\* the error is re-thrown when it raises
PG_CATCH(body, cleanup) ==
    IF Failed(body)
    THEN SubSeq(body, 1, Len(body) - 1) \o cleanup \o <<body[Len(body)]>>
    ELSE body \o cleanup

ProcessUtilitySlow_NoCatch(r, e) ==
    LET isCompleteQuery == r.context \in {"TOPLEVEL", "QUERY"}
        needCleanup == isCompleteQuery /\ e.evtTriggers
        begin == IF isCompleteQuery
                 THEN <<Ev("EventTriggerBeginCompleteQuery",
                           IF e.evtTriggers THEN "true" ELSE "false")>>
                 ELSE <<>>
        body ==
            RunAll(<<IF isCompleteQuery
                     THEN <<Ev("EventTriggerDDLCommandStart", "-")>>
                     ELSE <<>>,
                     SlowSwitch(r, e),
                     IF r.stmt.kind \notin CommandCollectedKinds
                     THEN EventTriggerCollectSimpleCommand("orchestrator")
                     ELSE <<>>,
                     IF isCompleteQuery
                     THEN <<Ev("EventTriggerSQLDrop", "-"),
                            Ev("EventTriggerDDLCommandEnd", "-")>>
                     ELSE <<>> >>)
        end == IF needCleanup
               THEN <<Ev("EventTriggerEndCompleteQuery", "-")>> ELSE <<>>
    IN
    begin \o Then(body, end)

ProcessUtilitySlow_SignalsOnExit(r, e) ==
    LET isCompleteQuery == r.context \in {"TOPLEVEL", "QUERY"}
        needCleanup == isCompleteQuery /\ e.evtTriggers
        begin == IF isCompleteQuery
                 THEN <<Ev("EventTriggerBeginCompleteQuery",
                           IF e.evtTriggers THEN "true" ELSE "false")>>
                 ELSE <<>>
        body ==
            RunAll(<<IF isCompleteQuery
                     THEN <<Ev("EventTriggerDDLCommandStart", "-")>>
                     ELSE <<>>,
                     SlowSwitch(r, e),
                     IF r.stmt.kind \notin CommandCollectedKinds
                     THEN EventTriggerCollectSimpleCommand("orchestrator")
                     ELSE <<>> >>)
        end == (IF isCompleteQuery
                THEN <<Ev("EventTriggerSQLDrop", "-"),
                       Ev("EventTriggerDDLCommandEnd", "-")>>
                ELSE <<>>)
               \o (IF needCleanup
                   THEN <<Ev("EventTriggerEndCompleteQuery", "-")>> ELSE <<>>)
    IN
    begin \o PG_CATCH(body, end)

ProcessUtilitySlow_CollectsAlways(r, e) ==
    LET isCompleteQuery == r.context \in {"TOPLEVEL", "QUERY"}
        needCleanup == isCompleteQuery /\ e.evtTriggers
        begin == IF isCompleteQuery
                 THEN <<Ev("EventTriggerBeginCompleteQuery",
                           IF e.evtTriggers THEN "true" ELSE "false")>>
                 ELSE <<>>
        body ==
            RunAll(<<IF isCompleteQuery
                     THEN <<Ev("EventTriggerDDLCommandStart", "-")>>
                     ELSE <<>>,
                     SlowSwitch(r, e),
                     EventTriggerCollectSimpleCommand("orchestrator"),
                     IF isCompleteQuery
                     THEN <<Ev("EventTriggerSQLDrop", "-"),
                            Ev("EventTriggerDDLCommandEnd", "-")>>
                     ELSE <<>> >>)
        end == IF needCleanup
               THEN <<Ev("EventTriggerEndCompleteQuery", "-")>> ELSE <<>>
    IN
    begin \o PG_CATCH(body, end)

\* the handler's trace inside PG_TRY, with the PG_CATCH / exit release of
\* the batch placed before the error is re-thrown
ProcessUtilitySlow(r, e) ==
    LET isCompleteQuery == r.context \in {"TOPLEVEL", "QUERY"}
        needCleanup == isCompleteQuery /\ e.evtTriggers
        begin == IF isCompleteQuery
                 THEN <<Ev("EventTriggerBeginCompleteQuery",
                           IF e.evtTriggers THEN "true" ELSE "false")>>
                 ELSE <<>>
        body ==
            RunAll(<<IF isCompleteQuery
                     THEN <<Ev("EventTriggerDDLCommandStart", "-")>>
                     ELSE <<>>,
                     SlowSwitch(r, e),
                     IF r.stmt.kind \notin CommandCollectedKinds
                     THEN EventTriggerCollectSimpleCommand("orchestrator")
                     ELSE <<>>,
                     IF isCompleteQuery
                     THEN <<Ev("EventTriggerSQLDrop", "-"),
                            Ev("EventTriggerDDLCommandEnd", "-")>>
                     ELSE <<>> >>)
        end == IF needCleanup
               THEN <<Ev("EventTriggerEndCompleteQuery", "-")>> ELSE <<>>
    IN
    begin \o PG_CATCH(body, end)

(***************************************************************************)
(* standard_ProcessUtility: the cases that choose between the slow path    *)
(* and the command handler                                                 *)
(***************************************************************************)
\* slow: the trace of ProcessUtilitySlow for this request
SlowOrLocal(supported, r, slow) ==
    IF supported THEN slow ELSE Local(r.stmt.kind, r)

\* stmt.objtype: the ACL object type; stmt.sub: the target type
T_GrantStmt(r, e, slow) ==
    LET pre == IF r.stmt.objtype = "ACL_OBJECT_RELATION"
                  /\ r.stmt.sub = "ACL_TARGET_OBJECT"
               THEN GrantStmtObjects(r.stmt, 1, TRUE, EXEC_ON_ALL_NODES, FALSE)
               ELSE PreResult(<<>>, FALSE, EXEC_ON_ALL_NODES)
    IN
    Then(IF IsCoordMaster(e)
         THEN Then(pre.trace,
                   IF ~pre.is_temp
                   THEN ExecRemoteUtilityStmt(
                            Target(UtilityContext(r), pre.exec_type,
                                   pre.is_temp), e)
                   ELSE <<>>)
         ELSE <<>>,
         SlowOrLocal(EventTriggerSupportsGrantObjectType(r.stmt.objtype), r, slow))

T_DropStmt(r, e, slow) ==
    IF EventTriggerSupportsObjectType(r.stmt.objtype)
    THEN slow
    ELSE ExecDropStmt(r.stmt, r.sentToRemote, r.stmt.fails, e)

T_RenameStmt(r, e, slow) ==
    LET loc == RenamePlacement(r.stmt) IN
    Then(IF IsCoordMaster(e) /\ ~loc.is_temp
         THEN ExecRemoteUtilityStmt(
                  Target(UtilityContext(r), loc.exec_type, loc.is_temp), e)
         ELSE <<>>,
         SlowOrLocal(EventTriggerSupportsObjectType(r.stmt.objtype), r, slow))

T_AlterObjectSchemaStmt_ResolvedOnly(r, e, slow) ==
    LET loc == RenamePlacement(r.stmt)
        oidSet == r.stmt.relation # "none"
                  /\ OidIsValid(RangeVarGetRelid(r.stmt.relation))
    IN
    RunAll(<<IF IsCoordMaster(e) /\ ~loc.is_temp
             THEN ExecRemoteUtilityStmt(
                      Target(UtilityContext(r), loc.exec_type, loc.is_temp), e)
             ELSE <<>>,
             IF IsCoordMaster(e) /\ r.stmt.objtype = "OBJECT_SEQUENCE" /\ oidSet
             THEN <<Ev("relation_open", r.stmt.relation),
                    Ev("local", "agtm_RenameSequence")>>
             ELSE <<>>,
             SlowOrLocal(EventTriggerSupportsObjectType(r.stmt.objtype), r, slow)>>)

\* oid is assigned only when the relation resolves; relation_open(oid) of
\* the sequence step reads it in every case.  stmt.flag: the uninitialised
\* oid happens to name a relation that opens
T_AlterObjectSchemaStmt(r, e, slow) ==
    LET loc == RenamePlacement(r.stmt)
        oidSet == r.stmt.relation # "none"
                  /\ OidIsValid(RangeVarGetRelid(r.stmt.relation))
    IN
    RunAll(<<IF IsCoordMaster(e) /\ ~loc.is_temp
             THEN ExecRemoteUtilityStmt(
                      Target(UtilityContext(r), loc.exec_type, loc.is_temp), e)
             ELSE <<>>,
             IF IsCoordMaster(e) /\ r.stmt.objtype = "OBJECT_SEQUENCE"
             THEN <<Ev("relation_open",
                       IF oidSet THEN r.stmt.relation ELSE "uninitialised")>>
                  \o (IF oidSet \/ r.stmt.flag
                      THEN <<Ev("local", "agtm_RenameSequence")>>
                      ELSE Err("UndefinedObject"))
             ELSE <<>>,
             SlowOrLocal(EventTriggerSupportsObjectType(r.stmt.objtype), r, slow)>>)

T_AlterOwnerStmt(r, e, slow) ==
    Then(SlowOrLocal(EventTriggerSupportsObjectType(r.stmt.objtype), r, slow),
         ExecRemoteUtilityStmt(UtilityContext(r), e))

T_CommentStmt(r, e, slow) ==
    LET pre == GetNodesForCommentUtility(r.stmt) IN
    Then(SlowOrLocal(EventTriggerSupportsObjectType(r.stmt.objtype), r, slow),
         IF IsCoordMaster(e)
         THEN Then(pre.trace,
                   IF ~pre.is_temp
                   THEN ExecRemoteUtilityStmt(
                            Target(UtilityContext(r), pre.exec_type,
                                   pre.is_temp), e)
                   ELSE <<>>)
         ELSE <<>>)

T_SecLabelStmt(r, e, slow) ==
    SlowOrLocal(EventTriggerSupportsObjectType(r.stmt.objtype), r, slow)

(***************************************************************************)
(* Statement Dispatcher                                                    *)
(***************************************************************************)
\* the switch of standard_ProcessUtility
FastSwitch(r, e, slow) ==
    LET kind == r.stmt.kind IN
    CASE kind = "T_TransactionStmt" -> TransactionStmt(r, e)
      [] kind = "T_PlannedStmt" -> T_PlannedStmt(r, e)
      [] kind = "T_ClosePortalStmt" -> T_ClosePortalStmt(r, e)
      [] kind \in {"T_CreateTableSpaceStmt", "T_DropTableSpaceStmt",
                   "T_CreatedbStmt"} -> T_CreateTableSpaceStmt(r, e)
      [] kind = "T_AlterTableSpaceOptionsStmt" ->
            T_AlterTableSpaceOptionsStmt(r, e)
      [] kind = "T_CopyStmt" -> T_CopyStmt(r, e)
      [] kind \in {"T_PrepareStmt", "T_DeallocateStmt"} -> T_PrepareStmt(r, e)
      [] kind = "T_DropdbStmt" -> T_DropdbStmt(r, e)
      [] kind = "T_NotifyStmt" -> T_NotifyStmt(r, e)
      [] kind \in {"T_ListenStmt", "T_UnlistenStmt"} -> T_ListenStmt(r, e)
      [] kind = "T_LoadStmt" -> T_LoadStmt(r, e)
      [] kind = "T_ClusterStmt" -> T_ClusterStmt(r, e)
      [] kind = "T_VacuumStmt" -> T_VacuumStmt(r, e)
      [] kind = "T_AlterSystemStmt" -> T_AlterSystemStmt(r, e)
      [] kind = "T_VariableSetStmt" -> T_VariableSetStmt(r, e)
      [] kind = "T_DiscardStmt" -> T_DiscardStmt(r, e)
      [] kind = "T_LockStmt" -> T_LockStmt(r, e)
      [] kind = "T_ConstraintsSetStmt" -> T_ConstraintsSetStmt(r, e)
      [] kind = "T_CheckPointStmt" -> T_CheckPointStmt(r, e)
      [] kind = "T_ReindexStmt" -> T_ReindexStmt(r, e)
      [] kind = "T_GrantStmt" -> T_GrantStmt(r, e, slow)
      [] kind = "T_DropStmt" -> T_DropStmt(r, e, slow)
      [] kind \in {"T_RenameStmt", "T_AlterObjectDependsStmt"} ->
            T_RenameStmt(r, e, slow)
      [] kind = "T_AlterObjectSchemaStmt" -> T_AlterObjectSchemaStmt(r, e, slow)
      [] kind = "T_AlterOwnerStmt" -> T_AlterOwnerStmt(r, e, slow)
      [] kind = "T_CommentStmt" -> T_CommentStmt(r, e, slow)
      [] kind = "T_SecLabelStmt" -> T_SecLabelStmt(r, e, slow)
      [] kind = "T_RemoteQuery" -> T_RemoteQuery(r, e)
      [] kind = "T_CleanConnStmt" -> T_CleanConnStmt(r, e)
      [] kind \in {"T_FetchStmt", "T_ExecuteStmt"} -> LocalWithTag(kind, r)
      [] kind \in LocalOnlyKinds -> Local(kind, r)
      [] kind \in LocalThenRemoteKinds ->
            Then(Local(kind, r), ExecRemoteUtilityStmt(UtilityContext(r), e))
      [] OTHER -> slow

pgxc_lock_for_utility_stmt_TopOnly(r, e) ==
    IF IsCoordMaster(e) /\ e.normalMode /\ ~IsStmtAllowedInLockedMode(r.stmt)
       /\ r.context # "SUBCOMMAND"
    THEN <<Ev("pgxc_lock_for_utility_stmt", r.stmt.kind)>>
    ELSE <<>>

pgxc_lock_for_utility_stmt(r, e) ==
    IF IsCoordMaster(e) /\ e.normalMode /\ ~IsStmtAllowedInLockedMode(r.stmt)
    THEN <<Ev("pgxc_lock_for_utility_stmt", r.stmt.kind)>>
    ELSE <<>>

standard_ProcessUtility_LockAfterGuard(r, e) ==
    RunAll(<<check_xact_readonly(r.stmt, e),
             pgxc_lock_for_utility_stmt(r, e),
             SetTag(r, ""),
             FastSwitch(r, e, ProcessUtilitySlow(r, e))>>)

standard_ProcessUtility(r, e) ==
    RunAll(<<pgxc_lock_for_utility_stmt(r, e),
             check_xact_readonly(r.stmt, e),
             SetTag(r, ""),
             FastSwitch(r, e, ProcessUtilitySlow(r, e))>>)

\* the call (*ProcessUtility_hook)(parsetree, ..., context, ...,
\* sentToRemote, completionTag); the event carries the context in exec,
\* sentToRemote in temp and completionTag != NULL in node
HookCall(r) ==
    <<[Ev("ProcessUtility_hook", r.stmt.kind) EXCEPT
          !.exec = r.context, !.temp = r.sentToRemote, !.node = r.hasTag]>>

ProcessUtility_HookAtTopOnly(r, e) ==
    IF r.context = "SUBCOMMAND" THEN standard_ProcessUtility(r, e)
    ELSE (IF e.hook THEN HookCall(r) ELSE <<>>)
         \o (IF e.hook /\ ~e.hookChains THEN <<>>
             ELSE standard_ProcessUtility(r, e))

\* what the hook does is the plugin's business: it returns at once, or it
\* calls standard_ProcessUtility with the arguments it was given
ProcessUtility(r, e) ==
    (IF e.hook THEN HookCall(r) ELSE <<>>)
    \o (IF e.hook /\ ~e.hookChains THEN <<>>
        ELSE standard_ProcessUtility(r, e))

(***************************************************************************)
(* Calls.  One record shape for every entry point.                         *)
(***************************************************************************)
Call0 ==
    [entry |-> "none",              \* the function called
     ctx |-> RemoteUtilityContext(FALSE, "q"),
     stmt |-> Stmt0,
     context |-> "TOPLEVEL",        \* ProcessUtilityContext
     sentToRemote |-> FALSE,
     hasTag |-> FALSE,              \* completionTag != NULL
     localFails |-> FALSE]          \* the local command handler raises

Prev0 == [call |-> Call0, trace |-> <<>>]

\* session states that differ in what the Remote Dispatcher reads
\* a node is the entry point when it is a coordinator whose connection does
\* not come from another coordinator
DispatchEnvs ==
    {[Env0 EXCEPT !.coordMaster = cm, !.connFromCoord = ~cm,
                  !.NumDataNodes = n] :
        cm \in BOOLEAN, n \in 0..MaxDataNodes}

Contexts ==
    {[sentToRemote |-> sr, force_autocommit |-> FALSE, is_temp |-> tmp,
      exec_type |-> x, stmt |-> FALSE, query |-> "q", remoteFails |-> rf] :
        sr \in BOOLEAN, tmp \in BOOLEAN, x \in ExecTypes, rf \in BOOLEAN}

(***************************************************************************)
(* Specification of the Remote Dispatcher alone: any sequence of calls of  *)
(* ExecRemoteUtilityStmt in a fixed session.                               *)
(***************************************************************************)
InitDispatch ==
    /\ env \in DispatchEnvs
    /\ call = Call0
    /\ trace = <<>>
    /\ prev = Prev0

ExecRemoteUtilityStmtCall ==
    \E c \in Contexts :
        /\ call' = [Call0 EXCEPT !.entry = "ExecRemoteUtilityStmt", !.ctx = c,
                                 !.sentToRemote = c.sentToRemote]
        /\ trace' = ExecRemoteUtilityStmt(c, env)
        /\ prev' = [call |-> call, trace |-> trace]
        /\ UNCHANGED env

NextDispatch == ExecRemoteUtilityStmtCall

SpecDispatch == InitDispatch /\ [][NextDispatch]_vars

\* the call has returned to its caller, which is ready for the next statement
Return ==
    /\ call.entry # "none"
    /\ call' = Call0
    /\ trace' = <<>>
    /\ prev' = Prev0
    /\ UNCHANGED env

(***************************************************************************)
(* Specification of DROP: any sequence of calls of ExecDropStmt.           *)
(***************************************************************************)
DropTypes ==
    RemoveRelationsTypes \cup {"OBJECT_RULE", "OBJECT_TRIGGER", "OBJECT_FUNCTION"}

\* the names a DROP list is drawn from: a permanent and a temporary table, a
\* permanent and a temporary view, an index of a materialized view, and a name
\* that does not resolve
DropNames == {"t", "tt", "v", "tv", "mi", "nx"}

NameLists == UNION {[1..n -> DropNames] : n \in 1..MaxObjects}

DropStmts ==
    {[Stmt0 EXCEPT !.kind = "T_DropStmt", !.objtype = ot, !.objects = objs,
                   !.missing_ok = mo, !.flag = cc] :
        ot \in DropTypes, objs \in NameLists, mo \in BOOLEAN, cc \in BOOLEAN}

InitDrop ==
    /\ env \in DispatchEnvs
    /\ call = Call0
    /\ trace = <<>>
    /\ prev = Prev0

ExecDropStmtCall ==
    /\ call.entry = "none"
    /\ \E st \in DropStmts, sr \in BOOLEAN, lf \in BOOLEAN :
        /\ st.flag => st.objtype = "OBJECT_INDEX"
        /\ st.objtype \in {"OBJECT_RULE", "OBJECT_TRIGGER"} => Len(st.objects) = 1
        /\ call' = [Call0 EXCEPT !.entry = "ExecDropStmt", !.stmt = st,
                                 !.sentToRemote = sr, !.localFails = lf]
        /\ trace' = ExecDropStmt(st, sr, lf, env)
        /\ prev' = Prev0
        /\ UNCHANGED env

NextDrop == ExecDropStmtCall \/ Return

SpecDrop == InitDrop /\ [][NextDrop]_vars

(***************************************************************************)
(* Specification of the Statement Dispatcher: any sequence of calls of     *)
(* ProcessUtility in a fixed session.                                      *)
(***************************************************************************)
S(kind) == [Stmt0 EXCEPT !.kind = kind]

\* kinds whose case reads no field of the statement ("T_BarrierStmt" has no
\* case at all)
PlainKinds ==
    LocalOnlyKinds \cup LocalThenRemoteKinds \cup SlowLocalThenRemoteKinds
    \cup {"T_CreateSchemaStmt", "T_ImportForeignSchemaStmt",
          "T_AlterOperatorStmt", "T_CreatePolicyStmt", "T_AlterPolicyStmt",
          "T_ClosePortalStmt", "T_CreateTableSpaceStmt",
          "T_DropTableSpaceStmt", "T_AlterTableSpaceOptionsStmt",
          "T_CopyStmt", "T_PrepareStmt", "T_DeallocateStmt", "T_CreatedbStmt",
          "T_DropdbStmt", "T_NotifyStmt", "T_ListenStmt", "T_UnlistenStmt",
          "T_LoadStmt", "T_AlterSystemStmt", "T_DiscardStmt", "T_LockStmt",
          "T_ConstraintsSetStmt", "T_CheckPointStmt", "T_CleanConnStmt",
          "T_BarrierStmt"}

TransactionKinds ==
    {"TRANS_STMT_BEGIN", "TRANS_STMT_START", "TRANS_STMT_COMMIT",
     "TRANS_STMT_PREPARE", "TRANS_STMT_COMMIT_PREPARED",
     "TRANS_STMT_ROLLBACK_PREPARED", "TRANS_STMT_ROLLBACK",
     "TRANS_STMT_SAVEPOINT", "TRANS_STMT_RELEASE", "TRANS_STMT_ROLLBACK_TO"}

ReindexKinds ==
    {"REINDEX_OBJECT_INDEX", "REINDEX_OBJECT_TABLE", "REINDEX_OBJECT_SCHEMA",
     "REINDEX_OBJECT_SYSTEM", "REINDEX_OBJECT_DATABASE", "unrecognized"}

ObjectTypes ==
    {"OBJECT_TABLE", "OBJECT_VIEW", "OBJECT_SEQUENCE", "OBJECT_INDEX",
     "OBJECT_RULE", "OBJECT_DATABASE", "OBJECT_FUNCTION"}

\* statements of the kinds that read fields, one set per kind
FieldStmts ==
    {[S("T_TransactionStmt") EXCEPT !.sub = k, !.flag = f] :
        k \in TransactionKinds, f \in BOOLEAN}
    \cup {[S("T_TransactionStmt") EXCEPT !.sub = k, !.gid = g,
                                         !.missing_ok = mo] :
            k \in {"TRANS_STMT_COMMIT_PREPARED",
                   "TRANS_STMT_ROLLBACK_PREPARED"},
            g \in {"g1", "g2"}, mo \in BOOLEAN}
    \cup {[S("T_PlannedStmt") EXCEPT !.flag = f] : f \in BOOLEAN}
    \cup {[S(k) EXCEPT !.sub = "unrecognized"] :
            k \in {"T_AlterDomainStmt", "T_DefineStmt"}}
    \cup {[S(k) EXCEPT !.relation = rel, !.flag2 = f] :
            k \in {"T_ClusterStmt", "T_VacuumStmt"},
            rel \in {"none", "t", "m", "nx"}, f \in BOOLEAN}
    \cup {[S("T_VariableSetStmt") EXCEPT !.sub = n, !.flag = f, !.flag2 = g] :
            n \in {"grammar", "other"}, f \in BOOLEAN, g \in BOOLEAN}
    \cup {[S("T_ReindexStmt") EXCEPT !.sub = k, !.relation = rel] :
            k \in ReindexKinds, rel \in {"t", "tt"}}
    \cup {[S("T_GrantStmt") EXCEPT !.objtype = ot, !.sub = tt, !.objects = objs] :
            ot \in {"ACL_OBJECT_RELATION", "ACL_OBJECT_DATABASE"},
            tt \in {"ACL_TARGET_OBJECT", "ACL_TARGET_ALL_IN_SCHEMA"},
            objs \in {<<"t">>, <<"tt">>, <<"v">>, <<"tv">>, <<"nx">>,
                      <<"nx", "t">>, <<"t", "v">>, <<"t", "tt">>,
                      <<"t", "s">>, <<"nx", "t", "v">>, <<"t", "nx", "s">>}}
    \cup {[S("T_DropStmt") EXCEPT !.objtype = ot, !.objects = objs,
                                  !.missing_ok = mo] :
            ot \in {"OBJECT_TABLE", "OBJECT_VIEW", "OBJECT_INDEX",
                    "OBJECT_FUNCTION", "OBJECT_DATABASE"},
            objs \in {<<"t">>, <<"tt">>, <<"tv">>, <<"nx">>, <<"t", "tt">>,
                      <<"nx", "t">>},
            mo \in BOOLEAN}
    \cup {[S("T_DropStmt") EXCEPT !.objtype = ot, !.objects = objs] :
            ot \in {"OBJECT_SEQUENCE", "OBJECT_RULE", "OBJECT_TRIGGER"},
            objs \in {<<"t">>, <<"tt">>, <<"tv">>, <<"ts">>}}
    \cup {[S(k) EXCEPT !.objtype = ot, !.relation = rel, !.flag = f] :
            k \in {"T_RenameStmt", "T_AlterObjectDependsStmt",
                   "T_AlterObjectSchemaStmt"},
            ot \in ObjectTypes, rel \in {"none", "t", "tt", "v", "tv", "nx"},
            f \in BOOLEAN}
    \cup {[S(k) EXCEPT !.objtype = ot] :
            k \in {"T_AlterOwnerStmt", "T_SecLabelStmt"},
            ot \in {"OBJECT_FUNCTION", "OBJECT_DATABASE"}}
    \cup {[S("T_CommentStmt") EXCEPT !.objtype = ot, !.relation = rel] :
            ot \in ObjectTypes, rel \in {"t", "tt", "v", "tv", "fn", "nx"}}
    \cup {[S("T_CommentStmt") EXCEPT !.objtype = "OBJECT_RULE", !.flag = TRUE,
                                     !.sub = read] :
            read \in {"SIGSEGV", InvalidOid, "t", "tt"}}
    \cup {[S("T_RemoteQuery") EXCEPT !.exec = x, !.temp = tmp] :
            x \in ExecTypes, tmp \in BOOLEAN}
    \cup {[S("T_IndexStmt") EXCEPT !.relation = rel, !.flag = f, !.flag2 = g] :
            rel \in {"t", "tt", "m", "nx"}, f \in BOOLEAN, g \in BOOLEAN}
    \cup {[S("T_ViewStmt") EXCEPT !.temp = tmp, !.flag = f] :
            tmp \in BOOLEAN, f \in BOOLEAN}
    \cup {[S(k) EXCEPT !.relation = rel, !.flag = f] :
            k \in {"T_RuleStmt", "T_AlterSeqStmt", "T_CreateTrigStmt"},
            rel \in {"t", "tt", "v", "tv", "s", "ts", "nx"}, f \in BOOLEAN}
    \cup {[S("T_CreateSeqStmt") EXCEPT !.temp = tmp, !.flag = f] :
            tmp \in BOOLEAN, f \in BOOLEAN}
    \cup {[S(k) EXCEPT !.flag = f, !.flag2 = g] :
            k \in {"T_CreateTableAsStmt", "T_RefreshMatViewStmt"},
            f \in BOOLEAN, g \in BOOLEAN}

\* the relations an ALTER of each object kind can name: ALTER TABLE takes
\* any relation, ALTER VIEW and ALTER INDEX only their own kind
AlterTableTargets ==
    ({"OBJECT_TABLE"} \X {"t", "tt", "v", "ti", "nx"})
    \cup ({"OBJECT_VIEW"} \X {"v", "tv", "nx"})
    \cup ({"OBJECT_INDEX"} \X {"i", "ti"})

\* what ALTER TABLE on a relation expands to: the statement itself, alone
\* or followed by an index or preceded by a sequence
AlterTableStmts ==
    {[S("T_AlterTableStmt") EXCEPT !.relation = tg[2], !.objtype = tg[1],
                                   !.cmds = cmds, !.missing_ok = mo,
                                   !.stmts = stmts] :
        tg \in AlterTableTargets,
        cmds \in {<<"AT_AddColumn">>, <<"AT_SubCluster">>,
                  <<"AT_AddNodeList", "AT_DeleteNodeList">>,
                  <<"AT_AddNodeList", "AT_DistributeBy">>,
                  <<"AT_DistributeBy", "AT_AddNodeList">>},
        mo \in BOOLEAN,
        stmts \in {<<S("T_AlterTableStmt")>>,
                   <<S("T_AlterTableStmt"),
                     [S("T_IndexStmt") EXCEPT !.relation = "t"]>>,
                   <<S("T_CreateSeqStmt"), S("T_AlterTableStmt")>>}}

\* the sub-statements transformCreateStmt produces: the table (permanent,
\* temporary, foreign), the sequence of a serial column, an index, the
\* ALTER TABLE that adds a constraint (alone, or expanding further)
SubStmts ==
    {[S("T_CreateStmt") EXCEPT !.temp = tmp] : tmp \in BOOLEAN}
    \cup {S("T_CreateForeignTableStmt"),
          [S("T_CreateSeqStmt") EXCEPT !.flag = TRUE],
          [S("T_IndexStmt") EXCEPT !.relation = "t"],
          [S("T_AlterTableStmt") EXCEPT !.relation = "t",
                                        !.objtype = "OBJECT_TABLE",
                                        !.cmds = <<"AT_AddConstraint">>,
                                        !.stmts = <<S("T_AlterTableStmt")>>],
          [S("T_AlterTableStmt") EXCEPT
              !.relation = "t", !.objtype = "OBJECT_TABLE",
              !.cmds = <<"AT_AddConstraint">>,
              !.stmts = <<S("T_AlterTableStmt"),
                          [S("T_IndexStmt") EXCEPT !.relation = "t"]>>]}

Expansions == UNION {[1..n -> SubStmts] : n \in 1..MaxSubStmts}

\* CREATE TABLE statements: every expansion, with handlers that return, with
\* a last sub-statement whose handler raises, and a temporary table that is
\* given a distribution
CreateStmts ==
    {[S("T_CreateStmt") EXCEPT !.temp = stmts[1].temp, !.stmts = stmts,
                               !.flag = f] :
        stmts \in Expansions, f \in BOOLEAN}
    \cup {[S("T_CreateStmt") EXCEPT
              !.temp = stmts[1].temp,
              !.stmts = [stmts EXCEPT ![Len(stmts)].fails = TRUE]] :
            stmts \in Expansions}
    \cup {[S("T_CreateStmt") EXCEPT
              !.temp = TRUE,
              !.stmts = <<[S("T_CreateStmt") EXCEPT !.temp = TRUE,
                                                    !.flag2 = TRUE]>>],
          [S("T_CreateForeignTableStmt") EXCEPT
              !.stmts = <<S("T_CreateForeignTableStmt")>>]}

\* every statement, with a command handler that returns and one that raises
UtilityStmts ==
    {[st EXCEPT !.fails = f] :
        st \in {S(k) : k \in PlainKinds} \cup FieldStmts \cup AlterTableStmts,
        f \in BOOLEAN}
    \cup CreateStmts

\* session states: the flags the Remote Dispatcher reads, the flags the
\* read-only check reads, and each remaining flag changed alone
UtilityEnvs ==
    {[Env0 EXCEPT !.pgxcCoord = pc, !.connFromCoord = cf,
                  !.NumDataNodes = n, !.xactBlock = xb] :
        pc \in BOOLEAN, cf \in BOOLEAN, n \in 0..MaxDataNodes,
        xb \in BOOLEAN}
    \cup {[Env0 EXCEPT !.XactReadOnly = ro, !.parallel = pm,
                       !.connFromCoord = cf] :
            ro \in BOOLEAN, pm \in BOOLEAN, cf \in BOOLEAN}
    \cup {[Env0 EXCEPT !.recovery = TRUE], [Env0 EXCEPT !.restricted = TRUE],
          [Env0 EXCEPT !.recovery = TRUE, !.xactBlock = TRUE],
          [Env0 EXCEPT !.superuser = FALSE],
          [Env0 EXCEPT !.evtTriggers = FALSE], [Env0 EXCEPT !.hook = TRUE],
          [Env0 EXCEPT !.hook = TRUE, !.hookChains = TRUE],
          [Env0 EXCEPT !.normalMode = FALSE]}

\* IsCoordMaster() is IS_PGXC_COORDINATOR && !IsConnFromCoord()
ConsistentEnv(e) ==
    [e EXCEPT !.coordMaster = e.pgxcCoord /\ ~e.connFromCoord]

\* the callers' argument combinations
RequestShapes ==
    {<<"TOPLEVEL", TRUE>>, <<"TOPLEVEL", FALSE>>, <<"QUERY", FALSE>>,
     <<"SUBCOMMAND", FALSE>>}

InitUtility ==
    /\ env \in {ConsistentEnv(e) : e \in UtilityEnvs}
    /\ call = Call0
    /\ trace = <<>>
    /\ prev = Prev0

ProcessUtilityCall ==
    /\ call.entry = "none"
    /\ \E st \in UtilityStmts, sh \in RequestShapes, sr \in BOOLEAN :
        /\ call' = [Call0 EXCEPT !.entry = "ProcessUtility", !.stmt = st,
                                 !.context = sh[1], !.hasTag = sh[2],
                                 !.sentToRemote = sr]
        /\ trace' = ProcessUtility(Request(st, sh[1], sr, sh[2]), env)
        /\ prev' = Prev0
        /\ UNCHANGED env

NextUtility == ProcessUtilityCall \/ Return

SpecUtility == InitUtility /\ [][NextUtility]_vars

(***************************************************************************)
(* Properties of the Remote Dispatcher (SpecDispatch)                      *)
(***************************************************************************)
(***************************************************************************)
(* Specification of the Node Target Resolver alone: any sequence of calls  *)
(* of ExecUtilityFindNodes and ExecUtilityFindNodesRelkind on the          *)
(* relations of the catalog.  What a call returns (exec_type and *is_temp) *)
(* is the one event of its trace.                                          *)
(***************************************************************************)
FindNodesTypes ==
    {"OBJECT_SEQUENCE", "OBJECT_TABLE", "OBJECT_TRIGGER", "OBJECT_RULE",
     "OBJECT_VIEW", "OBJECT_INDEX", "OBJECT_MATVIEW", "OBJECT_FUNCTION"}

Returned(name, loc) ==
    <<[Ev("return", name) EXCEPT !.exec = loc.exec_type,
                                 !.temp = loc.is_temp]>>

InitResolve ==
    /\ env \in DispatchEnvs
    /\ call = Call0
    /\ trace = <<>>
    /\ prev = Prev0

ExecUtilityFindNodesCall ==
    \E object_type \in FindNodesTypes, object_id \in Relations :
        /\ call' = [Call0 EXCEPT !.entry = "ExecUtilityFindNodes",
                                 !.stmt.objtype = object_type,
                                 !.stmt.relation = object_id]
        /\ trace' = Returned("ExecUtilityFindNodes",
                             ExecUtilityFindNodes(object_type, object_id))
        /\ prev' = [call |-> call, trace |-> trace]
        /\ UNCHANGED env

ExecUtilityFindNodesRelkindCall ==
    \E relid \in Relations :
        /\ call' = [Call0 EXCEPT !.entry = "ExecUtilityFindNodesRelkind",
                                 !.stmt.relation = relid]
        /\ trace' = Returned("ExecUtilityFindNodesRelkind",
                             ExecUtilityFindNodesRelkind(relid))
        /\ prev' = [call |-> call, trace |-> trace]
        /\ UNCHANGED env

NextResolve == ExecUtilityFindNodesCall \/ ExecUtilityFindNodesRelkindCall

SpecResolve == InitResolve /\ [][NextResolve]_vars

(***************************************************************************)
(* Specification of the guard checks alone: any sequence of calls of the   *)
(* four guards and of check_xact_readonly, under every combination of the  *)
(* session flags they read.  A guard call keeps the call before it and its *)
(* result in prev.                                                         *)
(***************************************************************************)
InitGuards ==
    /\ env \in {[Env0 EXCEPT !.XactReadOnly = ro, !.parallel = pm,
                              !.recovery = rc, !.restricted = rs] :
                    ro \in BOOLEAN, pm \in BOOLEAN, rc \in BOOLEAN,
                    rs \in BOOLEAN}
    /\ call = Call0
    /\ trace = <<>>
    /\ prev = Prev0

PreventCommandIfReadOnlyCall ==
    /\ call' = [Call0 EXCEPT !.entry = "PreventCommandIfReadOnly"]
    /\ trace' = PreventCommandIfReadOnly(env)
    /\ prev' = [call |-> call, trace |-> trace]
    /\ UNCHANGED env

PreventCommandIfParallelModeCall ==
    /\ call' = [Call0 EXCEPT !.entry = "PreventCommandIfParallelMode"]
    /\ trace' = PreventCommandIfParallelMode(env)
    /\ prev' = [call |-> call, trace |-> trace]
    /\ UNCHANGED env

PreventCommandDuringRecoveryCall ==
    /\ call' = [Call0 EXCEPT !.entry = "PreventCommandDuringRecovery"]
    /\ trace' = PreventCommandDuringRecovery(env)
    /\ prev' = [call |-> call, trace |-> trace]
    /\ UNCHANGED env

CheckRestrictedOperationCall ==
    /\ call' = [Call0 EXCEPT !.entry = "CheckRestrictedOperation"]
    /\ trace' = CheckRestrictedOperation(env)
    /\ prev' = [call |-> call, trace |-> trace]
    /\ UNCHANGED env

check_xact_readonlyCall ==
    \E kind \in PlainKinds \cup ReadOnlySensitive
                \cup {"T_TransactionStmt", "T_RemoteQuery", "T_DropStmt"} :
        /\ call' = [Call0 EXCEPT !.entry = "check_xact_readonly",
                                 !.stmt = S(kind)]
        /\ trace' = check_xact_readonly(S(kind), env)
        /\ prev' = Prev0
        /\ UNCHANGED env

NextGuards ==
    \/ PreventCommandIfReadOnlyCall
    \/ PreventCommandIfParallelModeCall
    \/ PreventCommandDuringRecoveryCall
    \/ CheckRestrictedOperationCall
    \/ check_xact_readonlyCall

SpecGuards == InitGuards /\ [][NextGuards]_vars

IsDispatch == call.entry = "ExecRemoteUtilityStmt"

\* the request would be broadcast: no short-circuit applies and nodes exist
Dispatchable(c, e) ==
    IsCoordMaster(e) /\ c.exec_type # EXEC_ON_NONE /\ ~c.sentToRemote
    /\ e.NumDataNodes > 0

\* the last call repeats the request of the call before it, marked forwarded
SecondOfPair ==
    /\ IsDispatch
    /\ prev.call.entry = "ExecRemoteUtilityStmt"
    /\ ~prev.call.ctx.sentToRemote
    /\ call.ctx = [prev.call.ctx EXCEPT !.sentToRemote = TRUE]

\* C1: a call with sentToRemote = TRUE makes no transport call; dispatching a
\* request and then the same request marked sentToRemote = TRUE makes, over
\* both calls, the transport calls of the first call alone: exactly one when
\* the first call is broadcast.
C1_Idempotent ==
    /\ IsDispatch /\ call.ctx.sentToRemote => Count(trace, "transport") = 0
    /\ SecondOfPair =>
         /\ Count(prev.trace, "transport") + Count(trace, "transport") <= 1
         /\ Dispatchable(prev.call.ctx, env) =>
              Count(prev.trace, "transport") + Count(trace, "transport") = 1

C1_Witness ==
    /\ SecondOfPair
    /\ Dispatchable(prev.call.ctx, env)
    /\ Count(prev.trace, "transport") = 1
    /\ trace = <<>>

\* C3: with no data node, the dispatcher raises NoDataNodesConfigured exactly
\* when the node is the coordinating entry point, the target is not NONE and
\* the request is not already forwarded; otherwise it returns having done
\* nothing.
C3_NoDataNodes ==
    IsDispatch /\ env.NumDataNodes = 0 =>
        IF IsCoordMaster(env) /\ call.ctx.exec_type # EXEC_ON_NONE
           /\ ~call.ctx.sentToRemote
        THEN trace = Err("NoDataNodesConfigured")
        ELSE trace = <<>>

C3_Witness ==
    /\ IsDispatch /\ env.NumDataNodes = 0
    /\ IsCoordMaster(env) /\ call.ctx.exec_type = EXEC_ON_ALL_NODES
    /\ ~call.ctx.sentToRemote
    /\ ErrorOf(trace) = "NoDataNodesConfigured"

(***************************************************************************)
(* Properties of DROP (SpecDrop)                                           *)
(***************************************************************************)
IsDrop == call.entry = "ExecDropStmt"

DropObjects == call.stmt.objects

Exists(n) == OidIsValid(RangeVarGetRelid(DropObjects[n]))

DropPlacement(n) ==
    ExecUtilityFindNodes(call.stmt.objtype, RangeVarGetRelid(DropObjects[n]))

\* two existing objects among the first k named resolve to different decisions
MixedWithin(k) ==
    \E a \in 1..k, b \in 1..k :
        Exists(a) /\ Exists(b) /\ DropPlacement(a) # DropPlacement(b)

MixedDrop == IsDrop /\ MixedWithin(Len(DropObjects))

\* an object that does not exist is named at position k, and none before it
FirstMissing(k) ==
    /\ k \in 1..Len(DropObjects)
    /\ ~Exists(k)
    /\ \A a \in 1..(k - 1) : Exists(a)

NothingDone == ~Has(trace, "local") /\ ~Has(trace, "transport")

\* C5 as stated: every DROP naming two objects of different placement fails
\* with MixedPlacementError before any local drop and any remote dispatch.
C5_AsStated ==
    MixedDrop => ErrorOf(trace) = "MixedPlacementError" /\ NothingDone

\* C5 (amended): on the coordinating entry point such a DROP raises an error
\* before any local drop and any remote dispatch; the error is
\* MixedPlacementError when the statement tolerates missing objects or names
\* none (and is not DROP INDEX CONCURRENTLY).
C5_NoPartialDrop ==
    MixedDrop /\ IsCoordMaster(env) =>
        /\ Failed(trace)
        /\ NothingDone
        /\ ErrorOf(trace) \in
              {"MixedPlacementError", "UndefinedObject", "FeatureNotSupported"}
        /\ (call.stmt.missing_ok \/ \A n \in 1..Len(DropObjects) : Exists(n))
           /\ ~call.stmt.flag
              => ErrorOf(trace) = "MixedPlacementError"

C5_Witness ==
    /\ MixedDrop /\ IsCoordMaster(env)
    /\ DropObjects = <<"t", "tt">>
    /\ call.stmt.objtype = "OBJECT_TABLE"
    /\ trace = Err("MixedPlacementError")

AllSkipped ==
    /\ IsDrop
    /\ call.stmt.objtype \in RelationDropTypes
    /\ call.stmt.missing_ok
    /\ ~call.stmt.flag
    /\ \A n \in 1..Len(DropObjects) : ~Exists(n)

\* C6 as stated: when every named object is skipped the DROP is dispatched to
\* no remote node.
C6_AsStated == AllSkipped => ~Has(trace, "transport")

\* C6 (amended): when every named object is skipped the checker leaves its
\* initial decision (ALL_NODES, not temporary) and, on the coordinating entry
\* point, the DROP is broadcast to all nodes once the local handler returned,
\* unless it is already forwarded or no data node exists.
C6_AllSkippedDefault ==
    AllSkipped /\ IsCoordMaster(env) =>
        /\ DropStmtPreTreatment(call.stmt, env, FALSE, EXEC_ON_ALL_NODES)
             = PreResult(<<>>, FALSE, EXEC_ON_ALL_NODES)
        /\ ~call.sentToRemote /\ ~call.localFails /\ env.NumDataNodes > 0 =>
             /\ Count(trace, "transport") = 1
             /\ trace[Len(trace)].op = "transport"
             /\ trace[Len(trace)].exec = EXEC_ON_ALL_NODES
        /\ call.sentToRemote \/ call.localFails => ~Has(trace, "transport")

C6_Witness ==
    /\ AllSkipped /\ IsCoordMaster(env)
    /\ Len(DropObjects) = 2
    /\ Has(trace, "transport")

CheckedDrop ==
    /\ IsDrop
    /\ IsCoordMaster(env)
    /\ call.stmt.objtype \in RelationDropTypes
    /\ ~call.stmt.flag

SomeMissing == \E n \in 1..Len(DropObjects) : ~Exists(n)

\* C7 as stated: a missing object named by a DROP that does not tolerate
\* missing objects makes the call fail with UndefinedObject.
C7_AsStated ==
    CheckedDrop /\ ~call.stmt.missing_ok /\ SomeMissing =>
        ErrorOf(trace) = "UndefinedObject" /\ NothingDone

\* C7 (amended): on the coordinating entry point, with IF EXISTS the call does
\* what it does for the list without the missing names; without IF EXISTS it
\* fails before any local drop and any remote dispatch, with UndefinedObject
\* unless two existing objects named before the first missing one differ in
\* placement (then with MixedPlacementError).
C7_MissingObjects ==
    CheckedDrop =>
        /\ call.stmt.missing_ok =>
             trace = ExecDropStmt(
                        [call.stmt EXCEPT !.objects =
                            SelectSeq(DropObjects,
                                      LAMBDA x : OidIsValid(RangeVarGetRelid(x)))],
                        call.sentToRemote, call.localFails, env)
        /\ ~call.stmt.missing_ok /\ SomeMissing =>
             /\ NothingDone
             /\ \A k \in 1..Len(DropObjects) : FirstMissing(k) =>
                  trace = IF MixedWithin(k) THEN Err("MixedPlacementError")
                          ELSE Err("UndefinedObject")

C7_Witness ==
    /\ CheckedDrop /\ ~call.stmt.missing_ok
    /\ DropObjects = <<"t", "nx">>
    /\ trace = Err("UndefinedObject")

(***************************************************************************)
(* Properties of the Statement Dispatcher (SpecUtility)                    *)
(***************************************************************************)
IsUtility == call.entry = "ProcessUtility"

CompleteQuery == call.context \in {"TOPLEVEL", "QUERY"}

Transports == {i \in 1..Len(trace) : trace[i].op = "transport"}

ReadOnlyCall ==
    /\ IsUtility /\ ~env.hook
    /\ env.XactReadOnly
    /\ call.stmt.kind \in ReadOnlySensitive

\* C4: in a read-only session, a statement of a kind listed in
\* check_xact_readonly fails with ReadOnlyViolation in the standard
\* dispatcher, and nothing ran for the call but the backup lock request: no
\* command handler, no remote dispatch, no other collaborator.
C4_ReadOnly ==
    ReadOnlyCall =>
        /\ ErrorOf(trace) = "ReadOnlyViolation"
        /\ \A i \in 1..Len(trace) :
             trace[i].op \in {"pgxc_lock_for_utility_stmt", "error"}

C4_Witness ==
    /\ ReadOnlyCall /\ IsCoordMaster(env)
    /\ call.stmt.kind = "T_TruncateStmt"
    /\ Len(trace) = 1 /\ ErrorOf(trace) = "ReadOnlyViolation"

\* C8 as stated: once sentToRemote is true for a call, nothing reaches the
\* transport for the statement or its sub-statements.
C8_AsStated == IsUtility /\ call.sentToRemote => Transports = {}

\* C8 (amended): once sentToRemote is true for a call, nothing reaches the
\* transport for the statement or its sub-statements, unless the statement is
\* itself a RemoteQuery node, whose step is sent whatever the flag says (it
\* is withheld only on a connection from another coordinator).  Every
\* sub-statement call is made with the flag true, so when the flag is false
\* the only step CREATE TABLE and ALTER TABLE send is the RemoteQuery node
\* they appended.
C8_StickyForwarded ==
    IsUtility =>
        /\ call.sentToRemote /\ call.stmt.kind # "T_RemoteQuery" =>
             Transports = {}
        /\ call.stmt.kind = "T_RemoteQuery" /\ ~env.hook =>
             (Transports = {}) = env.connFromCoord
        /\ call.stmt.kind \in {"T_CreateStmt", "T_CreateForeignTableStmt",
                               "T_AlterTableStmt"} =>
             /\ Cardinality(Transports) <= 1
             /\ \A i \in Transports : trace[i].tag = "T_RemoteQuery"

\* an already forwarded CREATE TABLE whose expansion holds an index on a
\* permanent table, which alone would be dispatched
C8_Witness ==
    /\ IsUtility /\ ~env.hook /\ IsCoordMaster(env) /\ env.NumDataNodes > 0
    /\ call.sentToRemote
    /\ call.stmt.kind = "T_CreateStmt"
    /\ Len(call.stmt.stmts) = 2
    /\ call.stmt.stmts[2].kind = "T_IndexStmt"
    /\ ~Failed(trace) /\ Count(trace, "local") = 3 /\ Transports = {}

Begins == {i \in 1..Len(trace) : trace[i].op = "EventTriggerBeginCompleteQuery"}

\* the calls of EventTriggerBeginCompleteQuery that set a batch up
Begun == {i \in Begins : trace[i].tag = "true"}

Ends == {i \in 1..Len(trace) : trace[i].op = "EventTriggerEndCompleteQuery"}

\* what the orchestrator and the handlers report to the event-trigger
\* subsystem, and the command-counter advances, of a slow-path execution
BatchOps ==
    {"EventTriggerDDLCommandStart", "EventTriggerCollectSimpleCommand",
     "EventTriggerCollectAlterDefPrivs", "EventTriggerAlterTableStart",
     "EventTriggerAlterTableRelid", "EventTriggerAlterTableEnd",
     "EventTriggerSQLDrop", "EventTriggerDDLCommandEnd",
     "CommandCounterIncrement"}

\* C9: a batch is begun only by a complete query (context TOPLEVEL or QUERY)
\* and at most once per call, so batches never nest; a call in context
\* SUBCOMMAND neither begins nor ends one; a batch that was begun is ended
\* exactly once, after everything the slow path reported, on the normal exit
\* and on the exit by an error; no batch is ended that was not begun.
C9_BatchesPaired ==
    IsUtility =>
        /\ Cardinality(Begins) <= 1
        /\ Begins # {} => CompleteQuery
        /\ ~CompleteQuery => Begins = {} /\ Ends = {}
        /\ Cardinality(Ends) = Cardinality(Begun)
        /\ \A b \in Begun : \A x \in Ends :
             /\ b < x
             /\ \A i \in 1..Len(trace) :
                  trace[i].op \in BatchOps => b < i /\ i < x

\* a complete CREATE TABLE whose index sub-statement, run by a nested
\* slow-path call, raises: the batch is ended before the error leaves
C9_Witness ==
    /\ IsUtility /\ CompleteQuery /\ env.evtTriggers
    /\ call.stmt.kind = "T_CreateStmt"
    /\ Len(call.stmt.stmts) = 2
    /\ call.stmt.stmts[2].kind = "T_IndexStmt"
    /\ Failed(trace)
    /\ Cardinality(Begun) = 1 /\ Cardinality(Ends) = 1

CreateTableCall ==
    /\ IsUtility /\ ~env.hook
    /\ call.stmt.kind \in {"T_CreateStmt", "T_CreateForeignTableStmt"}
    /\ ~Failed(trace)

Expansion == call.stmt.stmts

\* the advances the CREATE TABLE case makes itself; a nested sub-statement
\* call makes its own
Increments ==
    Cardinality({i \in 1..Len(trace) :
                    /\ trace[i].op = "CommandCounterIncrement"
                    /\ trace[i].tag = "T_CreateStmt"})

\* C10 as stated: a CREATE TABLE that expands into N sub-statements, run as
\* a complete query with event triggers defined, advances the command
\* counter N-1 times inside one begin/end pair.
C10_AsStated ==
    CreateTableCall /\ CompleteQuery /\ env.evtTriggers =>
        /\ Increments = Len(Expansion) - 1
        /\ Cardinality(Begins) = 1 /\ Cardinality(Ends) = 1

\* the sub-statements that create a plain table: each advances the counter
\* once more, before its toast table is made
PlainTables == {i \in 1..Len(Expansion) : Expansion[i].kind = "T_CreateStmt"}

\* the first table of the expansion is a temporary plain table
FirstTableIsTemp ==
    \E i \in PlainTables :
        /\ Expansion[i].temp
        /\ \A j \in 1..(i - 1) :
             Expansion[j].kind \notin {"T_CreateStmt",
                                       "T_CreateForeignTableStmt"}

\* the list executed is the expansion plus the appended RemoteQuery node
RemoteStepAdded ==
    ~call.sentToRemote /\ ~(IsCoordMaster(env) /\ FirstTableIsTemp)

\* C10 (amended): a CREATE TABLE that returns normally advances the command
\* counter, nested sub-statement calls not counted, once between consecutive statements of the list it executes (the
\* N sub-statements, plus the RemoteQuery node when the statement is not yet
\* forwarded and not temporary) and once more for every plain-table
\* sub-statement.  It makes one begin call exactly when it is a complete
\* query, and one end call exactly when that begin call set a batch up.
C10_CreateTableSteps ==
    CreateTableCall =>
        /\ Increments = (Len(Expansion) - 1)
                        + (IF RemoteStepAdded THEN 1 ELSE 0)
                        + Cardinality(PlainTables)
        /\ Cardinality(Begins) = (IF CompleteQuery THEN 1 ELSE 0)
        /\ Cardinality(Ends) = (IF CompleteQuery /\ env.evtTriggers
                                THEN 1 ELSE 0)
        /\ \A b \in Begins : \A x \in Ends :
             /\ x = Len(trace)
             /\ \A i \in 1..Len(trace) :
                  trace[i].op \in {"local", "transport"} \cup BatchOps =>
                      b < i /\ i < x

\* a complete, already forwarded CREATE TABLE of one plain table: N = 1 and
\* one advance
C10_Witness ==
    /\ CreateTableCall /\ CompleteQuery /\ env.evtTriggers
    /\ call.sentToRemote
    /\ Len(Expansion) = 1 /\ PlainTables = {1}
    /\ Increments = 1
    /\ Cardinality(Begins) = 1 /\ Cardinality(Ends) = 1

Injections == {i \in 1..Len(trace) : trace[i].op = "AddRemoteParseTree"}

Locals == {i \in 1..Len(trace) : trace[i].op = "local"}

\* a CREATE TABLE call that got as far as executing the list, or returned
CreateTableRan ==
    /\ IsUtility /\ ~env.hook
    /\ call.stmt.kind \in {"T_CreateStmt", "T_CreateForeignTableStmt"}
    /\ (Locals # {} \/ ~Failed(trace))

CreateTableTree == IF call.stmt.flag THEN "transformed_stmt" ELSE "parsetree"

\* one call of AddRemoteParseTree, for ALL_NODES, on the right tree, made
\* before every sub-statement handler
OneInjectionFirst ==
    /\ Cardinality(Injections) = 1
    /\ \A i \in Injections :
         /\ trace[i].exec = EXEC_ON_ALL_NODES
         /\ trace[i].tag = CreateTableTree
         /\ \A j \in Locals \cup Transports : i < j

\* C11 as stated: CREATE TABLE that is not already forwarded and not
\* temporary gets exactly one remote step (ALL_NODES) injected before any
\* sub-statement runs, built from the transformed statement when there is
\* one and from the parse tree otherwise; a forwarded or temporary CREATE
\* TABLE gets none.
C11_AsStated ==
    CreateTableRan =>
        /\ ~call.sentToRemote /\ ~FirstTableIsTemp => OneInjectionFirst
        /\ call.sentToRemote \/ FirstTableIsTemp => Injections = {}

\* C11 (amended): the temporary flag is worked out on the coordinating
\* entry point only.  There, CREATE TABLE that is not already forwarded and
\* not temporary gets exactly one remote step (ALL_NODES) injected before
\* any sub-statement runs, built from the transformed statement when there
\* is one and from the parse tree otherwise, and a forwarded or temporary
\* one gets none; on any other node the step is injected whenever the
\* statement is not already forwarded, temporary or not.
C11_RemoteStepInjected ==
    CreateTableRan =>
        /\ RemoteStepAdded => OneInjectionFirst
        /\ ~RemoteStepAdded => Injections = {}

\* a permanent table created on the entry point from a transformed
\* statement: the step is injected, then the table is defined, then the step
\* is sent
C11_Witness ==
    /\ CreateTableRan /\ IsCoordMaster(env) /\ env.NumDataNodes > 0
    /\ ~call.sentToRemote /\ ~FirstTableIsTemp /\ call.stmt.flag
    /\ PlainTables # {}
    /\ ~Failed(trace)
    /\ Cardinality(Injections) = 1 /\ Cardinality(Transports) = 1
    /\ \E i \in Injections :
         /\ trace[i].tag = "transformed_stmt"
         /\ \E j \in Locals : i < j /\ trace[j].tag = "DefineRelation"

\* an ALTER TABLE call that found its relation and got to the execution list
AlterTableRan ==
    /\ IsUtility /\ ~env.hook
    /\ call.stmt.kind = "T_AlterTableStmt"
    /\ Has(trace, "EventTriggerAlterTableStart")

AlterTableRelid == RangeVarGetRelid(call.stmt.relation)

\* every sub-command only changes the node list of the table
AllCoordinatorOnly ==
    \A i \in 1..Len(call.stmt.cmds) :
        call.stmt.cmds[i] \in {"AT_SubCluster", "AT_AddNodeList",
                               "AT_DeleteNodeList"}

\* one call of AddRemoteParseTree, made before every sub-command, with
\* target COORDS for a TABLE whose sub-commands are all coordinator-only and
\* with the resolved target of the relation otherwise
AlterTableInjection ==
    /\ Cardinality(Injections) = 1
    /\ \A i \in Injections :
         /\ \A j \in Locals \cup Transports : i < j
         /\ trace[i].exec =
              (IF call.stmt.objtype = "OBJECT_TABLE" /\ AllCoordinatorOnly
               THEN EXEC_ON_COORDS
               ELSE ExecUtilityFindNodes(call.stmt.objtype,
                                         AlterTableRelid).exec_type)

\* C12 as stated: ALTER TABLE that is not already forwarded, on an existing
\* relation that is not temporary, gets the remote step injected once, before
\* any sub-command runs, for COORDS when the object kind is TABLE and every
\* sub-command is coordinator-only (whatever their order) and for the
\* relation's resolved placement otherwise; on a temporary relation, or
\* already forwarded, it gets none.
C12_AsStated ==
    AlterTableRan =>
        /\ ~call.sentToRemote /\ ~IsTempTable(AlterTableRelid) =>
             AlterTableInjection
        /\ call.sentToRemote \/ IsTempTable(AlterTableRelid) =>
             Injections = {}

\* ALTER TABLE naming a temporary index: the relation-kind lookup reports it
\* as not temporary, and the step is injected for all nodes
C12_Witness ==
    /\ AlterTableRan /\ IsCoordMaster(env) /\ env.NumDataNodes > 0
    /\ ~call.sentToRemote
    /\ call.stmt.objtype = "OBJECT_TABLE" /\ call.stmt.relation = "ti"
    /\ IsTempTable(AlterTableRelid)
    /\ call.stmt.cmds = <<"AT_AddColumn">>
    /\ ~Failed(trace)
    /\ \E i \in Injections : trace[i].exec = EXEC_ON_ALL_NODES
    /\ \E j \in Transports : trace[j].exec = EXEC_ON_ALL_NODES

\* what the code does for ALTER TABLE: C12 with "temporary" read as the
\* temporary flag the Node Target Resolver returns for the statement's
\* object kind
C12_ByResolvedFlag ==
    AlterTableRan =>
        LET loc == ExecUtilityFindNodes(call.stmt.objtype, AlterTableRelid) IN
        /\ ~call.sentToRemote /\ ~loc.is_temp => AlterTableInjection
        /\ call.sentToRemote \/ loc.is_temp => Injections = {}

IsResolve ==
    call.entry \in {"ExecUtilityFindNodes", "ExecUtilityFindNodesRelkind"}

Asked(object_type) ==
    /\ call.entry = "ExecUtilityFindNodes"
    /\ call.stmt.objtype = object_type

Answered(exec_type, is_temp) ==
    /\ Len(trace) = 1
    /\ trace[1].exec = exec_type
    /\ trace[1].temp = is_temp

AskedRel == Catalog[call.stmt.relation]

\* C14: for a SEQUENCE the resolver always answers ALL_NODES, and the
\* temporary flag is whether the catalog has the relation as temporary.
C14_Sequence ==
    Asked("OBJECT_SEQUENCE") => Answered(EXEC_ON_ALL_NODES, AskedRel.temp)

\* a temporary sequence: still every node, flagged temporary
C14_Witness ==
    /\ Asked("OBJECT_SEQUENCE")
    /\ call.stmt.relation = "ts"
    /\ Answered(EXEC_ON_ALL_NODES, TRUE)

\* C15: for an INDEX the rules apply in priority order: a temporary relation
\* gives DATANODES flagged temporary; otherwise a materialized view, or an
\* index whose base relation is a materialized view, gives COORDS not
\* temporary; otherwise ALL_NODES not temporary.
C15_Index ==
    Asked("OBJECT_INDEX") =>
        IF AskedRel.temp
        THEN Answered(EXEC_ON_DATANODES, TRUE)
        ELSE IF \/ AskedRel.relkind = RELKIND_MATVIEW
                \/ /\ AskedRel.relkind = RELKIND_INDEX
                   /\ Catalog[AskedRel.base].relkind = RELKIND_MATVIEW
             THEN Answered(EXEC_ON_COORDS, FALSE)
             ELSE Answered(EXEC_ON_ALL_NODES, FALSE)

\* the index of a materialized view: coordinators only
C15_Witness ==
    /\ Asked("OBJECT_INDEX")
    /\ call.stmt.relation = "mi"
    /\ Answered(EXEC_ON_COORDS, FALSE)

\* the rule by relation kind, as the catalog has the relation
ByRelkind ==
    CASE AskedRel.relkind \in {RELKIND_SEQUENCE, RELKIND_RELATION} ->
            Answered(EXEC_ON_ALL_NODES, AskedRel.temp)
      [] AskedRel.relkind = RELKIND_VIEW ->
            IF AskedRel.temp THEN Answered(EXEC_ON_NONE, TRUE)
            ELSE Answered(EXEC_ON_COORDS, FALSE)
      [] OTHER -> Answered(EXEC_ON_ALL_NODES, FALSE)

\* C16: the remaining kinds follow the rule table: TABLE and TRIGGER go by
\* the relation kind (sequence or ordinary relation: ALL_NODES with the
\* catalog's temporary flag; view: NONE when temporary, else COORDS; any
\* other kind: ALL_NODES not temporary); RULE and VIEW give NONE when
\* temporary, else COORDS; MATVIEW gives COORDS not temporary; every other
\* object kind gives ALL_NODES not temporary.
C16_RuleTable ==
    /\ call.entry = "ExecUtilityFindNodesRelkind" => ByRelkind
    /\ Asked("OBJECT_TABLE") \/ Asked("OBJECT_TRIGGER") => ByRelkind
    /\ Asked("OBJECT_RULE") \/ Asked("OBJECT_VIEW") =>
            IF AskedRel.temp THEN Answered(EXEC_ON_NONE, TRUE)
            ELSE Answered(EXEC_ON_COORDS, FALSE)
    /\ Asked("OBJECT_MATVIEW") => Answered(EXEC_ON_COORDS, FALSE)
    /\ Asked("OBJECT_FUNCTION") => Answered(EXEC_ON_ALL_NODES, FALSE)

\* a trigger on a temporary view: no node at all
C16_Witness ==
    /\ Asked("OBJECT_TRIGGER")
    /\ call.stmt.relation = "tv"
    /\ Answered(EXEC_ON_NONE, TRUE)

\* the statement kinds whose case resolves a placement decision
ResolvingKinds ==
    {"T_CreateStmt", "T_CreateForeignTableStmt", "T_AlterTableStmt",
     "T_DropStmt", "T_IndexStmt", "T_RuleStmt", "T_AlterSeqStmt",
     "T_CreateTrigStmt", "T_CommentStmt", "T_RenameStmt",
     "T_AlterObjectDependsStmt", "T_AlterObjectSchemaStmt", "T_GrantStmt"}

\* the temporary flag of the decision the case of the statement resolves
ResolvedTemp ==
    LET stmt == call.stmt
        kind == stmt.kind
        relid == RangeVarGetRelid(stmt.relation)
    IN
    CASE kind \in {"T_CreateStmt", "T_CreateForeignTableStmt"} ->
            IsCoordMaster(env)
            /\ CreateStmtPlacement(stmt.stmts, 1, TRUE, FALSE).is_temp
      [] kind = "T_AlterTableStmt" ->
            OidIsValid(relid)
            /\ ExecUtilityFindNodes(stmt.objtype, relid).is_temp
      [] kind = "T_DropStmt" ->
            DropStmtPreTreatment(stmt, env, FALSE, EXEC_ON_ALL_NODES).is_temp
      [] kind = "T_IndexStmt" ->
            OidIsValid(relid)
            /\ ExecUtilityFindNodes("OBJECT_INDEX", relid).is_temp
      [] kind = "T_RuleStmt" ->
            GetNodesForRulesUtility(stmt.relation, stmt.flag).is_temp
      [] kind = "T_AlterSeqStmt" ->
            ExecUtilityFindNodes("OBJECT_SEQUENCE", relid).is_temp
      [] kind = "T_CreateTrigStmt" ->
            ExecUtilityFindNodes("OBJECT_TABLE", relid).is_temp
      [] kind = "T_CommentStmt" ->
            IsCoordMaster(env) /\ GetNodesForCommentUtility(stmt).is_temp
      [] kind \in {"T_RenameStmt", "T_AlterObjectDependsStmt",
                   "T_AlterObjectSchemaStmt"} ->
            IsCoordMaster(env) /\ RenamePlacement(stmt).is_temp
      [] kind = "T_GrantStmt" ->
            /\ IsCoordMaster(env)
            /\ stmt.objtype = "ACL_OBJECT_RELATION"
            /\ stmt.sub = "ACL_TARGET_OBJECT"
            /\ GrantStmtObjects(stmt, 1, TRUE, EXEC_ON_ALL_NODES,
                                FALSE).is_temp
      [] OTHER -> FALSE

\* C17: a statement whose resolved placement decision is temporary reaches
\* the transport not once, whatever the target of the decision; and no call
\* of the transport made for a statement of these kinds carries the
\* temporary flag.
C17_TemporaryStaysLocal ==
    IsUtility /\ call.stmt.kind \in ResolvingKinds =>
        /\ ResolvedTemp => Transports = {}
        /\ \A i \in Transports : ~trace[i].temp

\* a trigger created on a temporary table of a coordinator that could
\* dispatch: the trigger is created locally and nothing is sent
C17_Witness ==
    /\ IsUtility /\ ~env.hook /\ IsCoordMaster(env)
    /\ env.NumDataNodes > 0 /\ ~call.sentToRemote
    /\ call.stmt.kind = "T_CreateTrigStmt"
    /\ call.stmt.relation = "tt"
    /\ ResolvedTemp
    /\ Has(trace, "local") /\ ~Failed(trace)
    /\ Transports = {}

\* GRANT / REVOKE on a list of relations, in the standard dispatcher of the
\* coordinating entry point
GrantOnRelations ==
    /\ IsUtility /\ ~env.hook /\ IsCoordMaster(env)
    /\ call.stmt.kind = "T_GrantStmt"
    /\ call.stmt.objtype = "ACL_OBJECT_RELATION"
    /\ call.stmt.sub = "ACL_TARGET_OBJECT"

GrantObjects == call.stmt.objects

\* the listed relations that exist
GrantExisting ==
    {n \in 1..Len(GrantObjects) : OidIsValid(RangeVarGetRelid(GrantObjects[n]))}

\* two existing relations of the list resolve to different decisions
MixedGrant ==
    \E n \in GrantExisting, k \in GrantExisting :
        ExecUtilityFindNodesRelkind(GrantObjects[n])
            # ExecUtilityFindNodesRelkind(GrantObjects[k])

\* C18: a GRANT / REVOKE on relations of which two existing ones resolve to
\* different placement decisions fails, with no call of the transport and
\* no local grant; relations that do not exist take no part: when the
\* existing ones agree, the mixed-placement error is not raised.
C18_MixedGrantFails ==
    GrantOnRelations =>
        /\ MixedGrant =>
              /\ Failed(trace)
              /\ Transports = {}
              /\ ~Has(trace, "local")
        /\ ~MixedGrant => ErrorOf(trace) # "MixedPlacementError"

\* a missing relation, then a table and a view: the error is the
\* mixed-placement one and nothing was sent or granted
C18_Witness ==
    /\ GrantOnRelations /\ MixedGrant
    /\ GrantObjects = <<"nx", "t", "v">>
    /\ env.NumDataNodes > 0 /\ ~call.sentToRemote
    /\ ErrorOf(trace) = "MixedPlacementError"
    /\ Transports = {} /\ ~Has(trace, "local")

\* a transaction statement in the standard dispatcher whose transaction
\* manager call returns
TransactionCall(kind) ==
    /\ IsUtility /\ ~env.hook
    /\ call.stmt.kind = "T_TransactionStmt"
    /\ call.stmt.sub = kind
    /\ ~call.stmt.fails

TagWrites == {i \in 1..Len(trace) : trace[i].op = "tag"}

\* what the caller's completionTag buffer holds at the end; "none" when the
\* caller passed no buffer and nothing was written
CompletionTag ==
    IF TagWrites = {} THEN "none"
    ELSE trace[CHOOSE i \in TagWrites : \A k \in TagWrites : k <= i].tag

ReportedFailed == call.stmt.flag

\* C19: a COMMIT that EndTransactionBlock reports as unsuccessful raises no
\* error and leaves exactly "ROLLBACK" in the completion tag; a COMMIT
\* reported successful leaves the completion tag empty.  A caller that
\* passes no tag buffer gets no tag written.
C19_CommitTag ==
    TransactionCall("TRANS_STMT_COMMIT") =>
        /\ ~Failed(trace)
        /\ Has(trace, "xact")
        /\ CompletionTag = IF ~call.hasTag THEN "none"
                           ELSE IF ReportedFailed THEN "ROLLBACK" ELSE ""

\* an unsuccessful COMMIT of a caller that reads the tag
C19_Witness ==
    /\ TransactionCall("TRANS_STMT_COMMIT")
    /\ ReportedFailed /\ call.hasTag
    /\ ~Failed(trace)
    /\ CompletionTag = "ROLLBACK"

\* C20: during recovery PREPARE TRANSACTION fails with the recovery-mode
\* error and PrepareTransactionBlock is not called; outside recovery a
\* prepare reported as failed raises no error and leaves exactly "ROLLBACK"
\* in the completion tag.
C20_Prepare ==
    TransactionCall("TRANS_STMT_PREPARE") =>
        IF env.recovery
        THEN ErrorOf(trace) = "RecoveryModeViolation" /\ ~Has(trace, "xact")
        ELSE /\ ~Failed(trace)
             /\ Has(trace, "xact")
             /\ ReportedFailed /\ call.hasTag => CompletionTag = "ROLLBACK"

\* PREPARE TRANSACTION during recovery
C20_Witness ==
    /\ TransactionCall("TRANS_STMT_PREPARE")
    /\ env.recovery
    /\ ErrorOf(trace) = "RecoveryModeViolation"
    /\ ~Has(trace, "xact")

FinishCalls ==
    {i \in 1..Len(trace) : trace[i].op = "xact"
                           /\ trace[i].tag = "FinishPreparedTransactionExt"}

PreparedKind ==
    IF TransactionCall("TRANS_STMT_COMMIT_PREPARED") THEN "commit"
    ELSE IF TransactionCall("TRANS_STMT_ROLLBACK_PREPARED") THEN "rollback"
    ELSE "none"

\* C21: COMMIT PREPARED and ROLLBACK PREPARED fail inside a transaction
\* block and fail during recovery, each time with no call that finishes the
\* prepared transaction; otherwise they finish it once, with the gid of the
\* statement, commit = TRUE for COMMIT PREPARED and FALSE for ROLLBACK
\* PREPARED, and the missing_ok flag of the statement.
C21_FinishPrepared ==
    PreparedKind # "none" =>
        IF env.xactBlock
        THEN ErrorOf(trace) = "ActiveSqlTransaction" /\ FinishCalls = {}
        ELSE IF env.recovery
        THEN ErrorOf(trace) = "RecoveryModeViolation" /\ FinishCalls = {}
        ELSE /\ ~Failed(trace)
             /\ Cardinality(FinishCalls) = 1
             /\ \A i \in FinishCalls :
                   /\ trace[i].exec = call.stmt.gid
                   /\ trace[i].node = (PreparedKind = "commit")
                   /\ trace[i].temp = call.stmt.missing_ok

\* ROLLBACK PREPARED 'g2' with missing_ok, outside a block and recovery
C21_Witness ==
    /\ PreparedKind = "rollback"
    /\ ~env.xactBlock /\ ~env.recovery
    /\ call.stmt.gid = "g2" /\ call.stmt.missing_ok
    /\ \E i \in FinishCalls :
          trace[i].exec = "g2" /\ ~trace[i].node /\ trace[i].temp

SavepointCall ==
    /\ IsUtility /\ ~env.hook
    /\ call.stmt.kind = "T_TransactionStmt"
    /\ call.stmt.sub = "TRANS_STMT_SAVEPOINT"

SavepointDefined ==
    \E i \in 1..Len(trace) :
        trace[i].op = "xact" /\ trace[i].tag = "DefineSavepoint"

\* C22 as stated: inside a transaction block SAVEPOINT defines the savepoint
\* through the transaction manager; outside it fails with
\* NoActiveTransactionBlock and defines nothing.
C22_AsStated ==
    SavepointCall /\ ~call.stmt.fails =>
        IF env.xactBlock
        THEN ~Failed(trace) /\ SavepointDefined
        ELSE ErrorOf(trace) = "NoActiveTransactionBlock" /\ ~SavepointDefined

\* C22: SAVEPOINT fails with StatementTooComplex ("SAVEPOINT is not yet
\* supported") inside and outside a transaction block alike, before the
\* transaction-block requirement is checked, and defines nothing.
C22_SavepointNotSupported ==
    SavepointCall =>
        /\ ErrorOf(trace) = "StatementTooComplex"
        /\ ~SavepointDefined
        /\ ~Has(trace, "xact")

\* SAVEPOINT inside a transaction block: refused all the same
C22_Witness ==
    /\ SavepointCall /\ env.xactBlock
    /\ ErrorOf(trace) = "StatementTooComplex"
    /\ ~SavepointDefined

HookedCall == IsUtility /\ env.hook

\* the hook call the entry point makes for a statement and its arguments
Delegated(kind, context, sentToRemote, hasTag) ==
    [Ev("ProcessUtility_hook", kind) EXCEPT
        !.exec = context, !.temp = sentToRemote, !.node = hasTag]

\* the sub-statements of CREATE TABLE that are executed by a recursive call
Recursed ==
    {n \in 1..Len(call.stmt.stmts) :
        call.stmt.stmts[n].kind
            \notin {"T_CreateStmt", "T_CreateForeignTableStmt"}}

\* C23: with a registered hook the entry point calls the hook first, with
\* the arguments it received, and when the hook does nothing more, nothing
\* else happens: no guard check, no backup-lock request, no command handler,
\* no remote dispatch.  When the hook goes on to the standard dispatcher,
\* each sub-statement of a CREATE TABLE that completes re-enters through
\* the hook, with context SUBCOMMAND, sentToRemote true and no tag buffer.
C23_HookDelegation ==
    HookedCall =>
        /\ Len(trace) >= 1
        /\ trace[1] = Delegated(call.stmt.kind, call.context,
                                call.sentToRemote, call.hasTag)
        /\ ~env.hookChains => Len(trace) = 1
        /\ /\ env.hookChains /\ ~Failed(trace)
           /\ call.stmt.kind \in {"T_CreateStmt", "T_CreateForeignTableStmt"}
           => \A n \in Recursed :
                \E i \in 2..Len(trace) :
                    trace[i] = Delegated(call.stmt.stmts[n].kind,
                                         "SUBCOMMAND", TRUE, FALSE)

\* CREATE TABLE whose expansion holds an index, under a hook that chains:
\* the hook is entered for the statement and again for the index
C23_Witness ==
    /\ HookedCall /\ env.hookChains /\ ~Failed(trace)
    /\ call.stmt.kind = "T_CreateStmt"
    /\ \E n \in Recursed : call.stmt.stmts[n].kind = "T_IndexStmt"
    /\ \E i \in 2..Len(trace) :
          trace[i] = Delegated("T_IndexStmt", "SUBCOMMAND", TRUE, FALSE)

\* the trace of a guard that failed: one error, named and classified
Raised(name, sqlstate) ==
    /\ Len(trace) = 1
    /\ trace[1].op = "error" /\ trace[1].tag = name
    /\ trace[1].exec = sqlstate

GuardNames ==
    {"PreventCommandIfReadOnly", "PreventCommandIfParallelMode",
     "PreventCommandDuringRecovery", "CheckRestrictedOperation"}

\* each guard fails exactly when its flag is set, with the error of its name
GuardsByFlag ==
    /\ call.entry = "PreventCommandIfReadOnly" =>
          IF env.XactReadOnly THEN ErrorOf(trace) = "ReadOnlyViolation"
          ELSE trace = <<>>
    /\ call.entry = "PreventCommandIfParallelMode" =>
          IF env.parallel THEN ErrorOf(trace) = "ParallelModeViolation"
          ELSE trace = <<>>
    /\ call.entry = "PreventCommandDuringRecovery" =>
          IF env.recovery THEN ErrorOf(trace) = "RecoveryModeViolation"
          ELSE trace = <<>>
    /\ call.entry = "CheckRestrictedOperation" =>
          IF env.restricted THEN ErrorOf(trace) = "InsufficientPrivilege"
          ELSE trace = <<>>

\* two different guards failed one after the other
TwoGuardsFailed ==
    /\ call.entry \in GuardNames /\ prev.call.entry \in GuardNames
    /\ call.entry # prev.call.entry
    /\ Failed(trace) /\ Failed(prev.trace)

SameClassification == trace[1].exec = prev.trace[1].exec

\* the composite check: nothing outside the mapped kinds, read-only before
\* parallel mode for a mapped kind
CompositeInOrder ==
    call.entry = "check_xact_readonly" =>
        IF call.stmt.kind \notin ReadOnlySensitive THEN trace = <<>>
        ELSE IF env.XactReadOnly
        THEN Raised("ReadOnlyViolation", "ERRCODE_READ_ONLY_SQL_TRANSACTION")
        ELSE IF env.parallel
        THEN Raised("ParallelModeViolation",
                    "ERRCODE_INVALID_TRANSACTION_STATE")
        ELSE trace = <<>>

\* C24 as stated: each guard fails exactly when its flag is set, the
\* failures of two different guards never share a classification, no guard
\* changes the session state, and the composite check is as above.
C24_AsStated ==
    /\ [](/\ GuardsByFlag
          /\ TwoGuardsFailed => ~SameClassification
          /\ CompositeInOrder)
    /\ [][env' = env]_vars

\* C24: each guard fails exactly when its flag is set and otherwise returns;
\* the failures of two different guards differ in classification except
\* those of the read-only and the recovery guard, which both raise
\* ERRCODE_READ_ONLY_SQL_TRANSACTION and differ in the message only; no
\* guard changes the session state; the composite check does nothing for a
\* kind outside its mapped set and checks read-only before parallel mode
\* for a mapped one.
C24_GuardChecks ==
    /\ [](/\ GuardsByFlag
          /\ TwoGuardsFailed =>
                (SameClassification <=>
                    {call.entry, prev.call.entry}
                        = {"PreventCommandIfReadOnly",
                           "PreventCommandDuringRecovery"})
          /\ call.entry = "PreventCommandDuringRecovery" /\ Failed(trace) =>
                Raised("RecoveryModeViolation",
                       "ERRCODE_READ_ONLY_SQL_TRANSACTION")
          /\ CompositeInOrder)
    /\ [][env' = env]_vars

\* the recovery guard fails right after the read-only guard failed: two
\* guards, one classification
C24_Witness ==
    /\ TwoGuardsFailed
    /\ prev.call.entry = "PreventCommandIfReadOnly"
    /\ call.entry = "PreventCommandDuringRecovery"
    /\ Raised("RecoveryModeViolation", "ERRCODE_READ_ONLY_SQL_TRANSACTION")
    /\ SameClassification

\* the kinds whose case of standard_ProcessUtility calls the Remote
\* Dispatcher itself
FastForwardedKinds ==
    LocalThenRemoteKinds
    \cup {"T_CreateTableSpaceStmt", "T_DropTableSpaceStmt", "T_CreatedbStmt",
          "T_AlterTableSpaceOptionsStmt", "T_DropdbStmt", "T_LoadStmt",
          "T_ClusterStmt", "T_VacuumStmt", "T_DiscardStmt", "T_LockStmt",
          "T_ConstraintsSetStmt", "T_CheckPointStmt", "T_ReindexStmt",
          "T_GrantStmt", "T_RenameStmt", "T_AlterObjectDependsStmt",
          "T_AlterObjectSchemaStmt", "T_AlterOwnerStmt", "T_CommentStmt",
          "T_CleanConnStmt"}

\* the kinds whose case dispatches before it calls the command handler
RemoteFirstKinds ==
    {"T_VacuumStmt", "T_GrantStmt", "T_RenameStmt",
     "T_AlterObjectDependsStmt", "T_AlterObjectSchemaStmt"}

FastForwardedCall ==
    /\ IsUtility /\ ~env.hook
    /\ call.stmt.kind \in FastForwardedKinds

\* every call of the transport comes after a command handler ran, and a
\* handler that raises leaves the transport uncalled
LocalThenRemote ==
    /\ \A i \in Transports : \E j \in Locals : j < i
    /\ call.stmt.fails => Transports = {}

\* C25 as stated: on the fast path every forwarded kind calls its command
\* handler first and the Remote Dispatcher only after the handler returned.
C25_AsStated == FastForwardedCall => LocalThenRemote

\* C25: on the fast path the command handler runs first and the Remote
\* Dispatcher after it returned, except for VACUUM / ANALYZE, GRANT /
\* REVOKE, RENAME, ALTER ... DEPENDS ON and ALTER ... SET SCHEMA, whose
\* case dispatches first and calls the command handler afterwards.
C25_FastPathOrder ==
    FastForwardedCall =>
        IF call.stmt.kind \in RemoteFirstKinds
        THEN \A i \in Transports : \A j \in Locals : i < j
        ELSE LocalThenRemote

\* VACUUM of a distributed table: sent to the data nodes, then run locally
C25_Witness ==
    /\ FastForwardedCall /\ call.stmt.kind = "T_VacuumStmt"
    /\ ~Failed(trace)
    /\ \E i \in Transports : \E j \in Locals :
          i < j /\ trace[j].tag = "ExecVacuum"

(***************************************************************************)
(* Properties of the slow path's exits (SpecUtility)                       *)
(***************************************************************************)
SQLDrops == {i \in 1..Len(trace) : trace[i].op = "EventTriggerSQLDrop"}

DDLCommandEnds ==
    {i \in 1..Len(trace) : trace[i].op = "EventTriggerDDLCommandEnd"}

\* the commands the orchestrator itself recorded
OrchestratorCollects ==
    {i \in 1..Len(trace) :
        /\ trace[i].op = "EventTriggerCollectSimpleCommand"
        /\ trace[i].tag = "orchestrator"}

\* kinds whose case of standard_ProcessUtility dispatches after the slow
\* path returned
DispatchAfterSlowKinds == {"T_AlterOwnerStmt", "T_CommentStmt"}

\* a complete query entered the slow path
SlowPathEntered == IsUtility /\ CompleteQuery /\ Begins # {}

\* the error was raised inside the slow path: by the handler, by a remote
\* dispatch the case makes, or by the default case of the switch
SlowPathRaised ==
    /\ SlowPathEntered /\ Failed(trace)
    /\ call.stmt.kind \in DispatchAfterSlowKinds => call.stmt.fails

SlowPathReturned == SlowPathEntered /\ ~SlowPathRaised

\* C26: when the handler of the slow path, a remote dispatch inside it or
\* the default case of its switch ("unrecognized node type") raises, the
\* orchestrator signals neither "object dropped" nor "DDL command ending",
\* records no command for the statement, ends the batch once if it had
\* begun one, and the error leaves as the one error of the call; when the
\* slow path returns it signals "object dropped" then "DDL command ending"
\* once each, before ending the batch; without a complete query neither
\* signal is given.
C26_SlowPathExits ==
    /\ SlowPathRaised =>
         /\ SQLDrops = {} /\ DDLCommandEnds = {}
         /\ call.stmt.stmts = <<>> => OrchestratorCollects = {}
         /\ Cardinality(Ends) = Cardinality(Begun)
         /\ \A x \in Ends : x = Len(trace) - 1
         /\ Count(trace, "error") = 1
         /\ call.stmt.kind = "T_BarrierStmt" =>
                ErrorOf(trace) = "UnrecognizedStatementKind"
         /\ call.stmt.kind \in SlowLocalOnlyKinds /\ call.stmt.fails =>
                ErrorOf(trace) = call.stmt.kind
    /\ SlowPathReturned =>
         /\ Cardinality(SQLDrops) = 1 /\ Cardinality(DDLCommandEnds) = 1
         /\ \A d \in SQLDrops : \A n \in DDLCommandEnds :
              /\ n = d + 1
              /\ \A x \in Ends : n < x
    /\ IsUtility /\ ~SlowPathEntered => SQLDrops = {} /\ DDLCommandEnds = {}

\* a complete statement of a kind no case knows: the batch is begun, the
\* default case raises, the batch is ended and the error leaves
C26_Witness ==
    /\ SlowPathRaised /\ env.evtTriggers
    /\ call.stmt.kind = "T_BarrierStmt"
    /\ ErrorOf(trace) = "UnrecognizedStatementKind"
    /\ Cardinality(Begun) = 1 /\ Cardinality(Ends) = 1
    /\ SQLDrops = {}

\* the sub-statements of the expansion that a nested slow-path execution
\* records itself
NestedRecorded ==
    {i \in 1..Len(call.stmt.stmts) :
        call.stmt.stmts[i].kind \notin
            CommandCollectedKinds \cup {"T_CreateStmt", "T_AlterTableStmt"}}

\* C27: one slow-path execution records the command with
\* EventTriggerCollectSimpleCommand at most once, after every call of the
\* command handler, and not at all for a kind whose case sets
\* commandCollected; the executions nested for the sub-statements of an
\* expansion record at most one command each.
C27_RecordedOnce ==
    IsUtility =>
        /\ call.stmt.kind \in CommandCollectedKinds =>
              Cardinality(OrchestratorCollects) <= Cardinality(NestedRecorded)
        /\ call.stmt.kind \notin CommandCollectedKinds =>
              /\ Cardinality(OrchestratorCollects) <= 1
              /\ \A i \in OrchestratorCollects : \A j \in Locals : j < i
        /\ call.stmt.stmts = <<>> /\ call.stmt.kind \in CommandCollectedKinds
              => OrchestratorCollects = {}

\* a CREATE TABLE with a serial column: the nested CREATE SEQUENCE is
\* recorded once by its own slow-path execution, the table by its handler,
\* and the outer execution records nothing
C27_Witness ==
    /\ IsUtility /\ ~Failed(trace)
    /\ call.stmt.kind = "T_CreateStmt"
    /\ Len(call.stmt.stmts) = 2
    /\ call.stmt.stmts[1].kind = "T_CreateSeqStmt"
    /\ call.stmt.stmts[2].kind = "T_CreateStmt"
    /\ Cardinality(OrchestratorCollects) = 1
    /\ \E i \in 1..Len(trace) :
          /\ trace[i].op = "EventTriggerCollectSimpleCommand"
          /\ trace[i].tag = "handler"
          /\ \A j \in OrchestratorCollects : j < i

(***************************************************************************)
(* Properties of the temp / non-temp check of CREATE TABLE (SpecUtility)   *)
(***************************************************************************)
\* the table-creating sub-statements of the expansion
TableCreates ==
    {i \in 1..Len(Expansion) :
        Expansion[i].kind \in {"T_CreateStmt", "T_CreateForeignTableStmt"}}

\* a foreign table is never temporary
CreatesTemporary(i) == Expansion[i].kind = "T_CreateStmt" /\ Expansion[i].temp

MixedExpansion ==
    \E i \in TableCreates, j \in TableCreates :
        CreatesTemporary(i) /\ ~CreatesTemporary(j)

\* a CREATE TABLE call on the coordinating entry point that reached the
\* check, with no temporary table that is given a distribution
CheckedCreate ==
    /\ IsUtility /\ ~env.hook /\ IsCoordMaster(env)
    /\ call.stmt.kind \in {"T_CreateStmt", "T_CreateForeignTableStmt"}
    /\ ErrorOf(trace) \notin {"ReadOnlyViolation", "ParallelModeViolation"}
    /\ \A i \in TableCreates : ~(Expansion[i].temp /\ Expansion[i].flag2)

MixedRaised == ErrorOf(trace) = "MixedPlacementError"

\* C28 as stated: the check raises exactly when the expansion holds both a
\* temporary and a non-temporary table-creating sub-statement, a foreign
\* table counting as non-temporary, and before any table is created.
C28_AsStated ==
    CheckedCreate =>
        /\ MixedRaised <=> MixedExpansion
        /\ MixedRaised => Locals = {} /\ Injections = {}

\* what the loop compares a later table-creating sub-statement with: the
\* first one
FirstCreate == CHOOSE i \in TableCreates : \A j \in TableCreates : i <= j

\* a later plain table differs from the first in being temporary, or a
\* later foreign table follows a first that is not temporary
RefusedByLoop ==
    \E j \in TableCreates :
        /\ j > FirstCreate
        /\ IF Expansion[j].kind = "T_CreateStmt"
           THEN CreatesTemporary(j) # CreatesTemporary(FirstCreate)
           ELSE ~CreatesTemporary(FirstCreate)

\* C28 (what the code does): the check raises exactly when a later plain
\* table differs from the first table-creating sub-statement in being
\* temporary, or a foreign table comes after a first one that is not
\* temporary; it raises before any table is created.
C28_FirstDecides ==
    CheckedCreate =>
        /\ MixedRaised <=> RefusedByLoop
        /\ MixedRaised => Locals = {} /\ Injections = {}

\* a permanent table followed by a foreign table, neither temporary, is
\* refused
C28_Witness ==
    /\ CheckedCreate
    /\ Len(Expansion) = 2
    /\ Expansion[1].kind = "T_CreateStmt" /\ ~Expansion[1].temp
    /\ Expansion[2].kind = "T_CreateForeignTableStmt"
    /\ ~MixedExpansion /\ MixedRaised /\ Locals = {}

(***************************************************************************)
(* Properties of the placement of COMMENT on a rule (SpecUtility)          *)
(***************************************************************************)
\* a COMMENT ON RULE on the coordinating entry point whose handler
\* returned, so that the placement lookup runs
RuleCommentPlaced ==
    /\ IsUtility /\ ~env.hook /\ IsCoordMaster(env)
    /\ call.stmt.kind = "T_CommentStmt" /\ call.stmt.objtype = "OBJECT_RULE"
    /\ call.stmt.relation # "nx" /\ ~call.stmt.fails
    /\ ErrorOf(trace) \notin {"ReadOnlyViolation", "ParallelModeViolation"}

\* get_object_address handed back no relation
NullRelation == call.stmt.flag

NullReads == {i \in 1..Len(trace) : trace[i].op = "dereference"}

Warned == \E i \in 1..Len(trace) : trace[i].op = "WARNING"

\* C29 as stated: the relation handle is never dereferenced when it is
\* null; an absent relation yields a warning and the default ALL_NODES
\* placement.
C29_AsStated ==
    RuleCommentPlaced /\ NullRelation =>
        /\ NullReads = {}
        /\ Warned
        /\ \A i \in Transports :
             trace[i].exec = EXEC_ON_ALL_NODES /\ ~trace[i].temp

\* C29 (what the code does): a relation handle that is not null is read
\* without a warning and decides the placement; a null handle is read
\* through, and the warning with the default ALL_NODES placement is one of
\* the outcomes, reached only when that read yields an invalid id.
C29_NullHandleIsRead ==
    RuleCommentPlaced =>
        /\ ~NullRelation => NullReads = {} /\ ~Warned
        /\ NullRelation =>
             /\ NullReads # {}
             /\ Warned <=> call.stmt.sub = InvalidOid
             /\ Warned => \A i \in Transports :
                             trace[i].exec = EXEC_ON_ALL_NODES

\* a COMMENT ON RULE with no relation handle: the handle is read through
\* before the warning is given and the statement is sent to all nodes
C29_Witness ==
    /\ RuleCommentPlaced /\ NullRelation
    /\ Warned /\ Transports # {}
    /\ \E i \in NullReads : \A j \in Transports : i < j

(***************************************************************************)
(* Properties of RENAME / DEPENDS ON / SET SCHEMA on a relation that does  *)
(* not resolve (SpecUtility)                                               *)
(***************************************************************************)
\* a statement of the three kinds, on the coordinating entry point, that
\* names a relation RangeVarGetRelid does not resolve
UnresolvedCall ==
    /\ IsUtility /\ ~env.hook /\ IsCoordMaster(env)
    /\ call.stmt.kind \in {"T_RenameStmt", "T_AlterObjectDependsStmt",
                           "T_AlterObjectSchemaStmt"}
    /\ call.stmt.relation # "none"
    /\ ~OidIsValid(RangeVarGetRelid(call.stmt.relation))
    /\ ErrorOf(trace) \notin {"ReadOnlyViolation", "ParallelModeViolation"}

\* the reads of a relation identifier that was never assigned
UninitialisedReads ==
    {i \in 1..Len(trace) :
        trace[i].op = "relation_open" /\ trace[i].tag = "uninitialised"}

SequenceSetSchema ==
    /\ call.stmt.kind = "T_AlterObjectSchemaStmt"
    /\ call.stmt.objtype = "OBJECT_SEQUENCE"

\* C30 as stated: the target is NONE, nothing is dispatched, the dispatcher
\* raises no error of its own, and no later step uses the unresolved
\* relation identifier.
C30_AsStated ==
    UnresolvedCall =>
        /\ Transports = {}
        /\ Failed(trace) => call.stmt.fails
        /\ UninitialisedReads = {}

\* C30 (what the code does): nothing is dispatched; except for ALTER
\* SEQUENCE ... SET SCHEMA no step reads the identifier and only the
\* handler can raise; for ALTER SEQUENCE ... SET SCHEMA the sequence step
\* opens a relation by the identifier that was never assigned, and raises
\* unless that value happens to name a relation.
C30_UnresolvedStaysLocal ==
    UnresolvedCall =>
        /\ Transports = {}
        /\ ~SequenceSetSchema =>
             /\ UninitialisedReads = {}
             /\ Failed(trace) => call.stmt.fails
        /\ SequenceSetSchema =>
             /\ Cardinality(UninitialisedReads) = 1
             /\ ~call.stmt.flag => ErrorOf(trace) = "UndefinedObject"
             /\ call.stmt.flag =>
                  \E i \in UninitialisedReads :
                      /\ trace[i + 1].op = "local"
                      /\ trace[i + 1].tag = "agtm_RenameSequence"

\* ALTER SEQUENCE IF EXISTS nx SET SCHEMA: nothing is dispatched and the
\* sequence step renames whatever the unassigned identifier names
C30_Witness ==
    /\ UnresolvedCall /\ SequenceSetSchema /\ call.stmt.flag
    /\ Transports = {} /\ ~Failed(trace)
    /\ UninitialisedReads # {}
    /\ \E i \in Locals : trace[i].tag = "agtm_RenameSequence"

(***************************************************************************)
(* Properties of the cluster backup lock (SpecUtility)                     *)
(***************************************************************************)
LockRequests ==
    {i \in 1..Len(trace) : trace[i].op = "pgxc_lock_for_utility_stmt"}

\* the requests made for the statement of the call itself; a nested call
\* for a sub-statement requests the lock for that sub-statement
OwnLockRequests == {i \in LockRequests : trace[i].tag = call.stmt.kind}

\* the call reached standard_ProcessUtility
Dispatched == IsUtility /\ (~env.hook \/ env.hookChains)

\* where the trace of standard_ProcessUtility starts
DispatchStart == IF env.hook THEN 2 ELSE 1

LockNeeded ==
    /\ IsCoordMaster(env) /\ env.normalMode
    /\ ~IsStmtAllowedInLockedMode(call.stmt)

\* C31: a dispatch call requests the backup lock at most once, as its
\* first step (before the read-only / parallel guard, the reset of the
\* completion tag, every handler and every remote dispatch), exactly when
\* the session is the coordinating entry point in normal processing mode
\* and the statement is not allowed in locked mode; any further request in
\* the trace is made by a nested call for a sub-statement.
C31_LockOnceAtTop ==
    /\ IsUtility /\ ~Dispatched => LockRequests = {}
    /\ Dispatched =>
         /\ Cardinality(OwnLockRequests) <= 1
         /\ OwnLockRequests # {} <=> LockNeeded
         /\ \A i \in OwnLockRequests : i = DispatchStart
         /\ call.stmt.stmts = <<>> => LockRequests = OwnLockRequests
         /\ \A i \in LockRequests \ OwnLockRequests :
              \E n \in 1..Len(call.stmt.stmts) :
                  \/ call.stmt.stmts[n].kind = trace[i].tag
                  \/ \E m \in 1..Len(call.stmt.stmts[n].stmts) :
                        call.stmt.stmts[n].stmts[m].kind = trace[i].tag

\* a statement that needs the lock in a read-only transaction: the lock is
\* requested, then the guard raises
C31_Witness ==
    /\ Dispatched /\ LockNeeded /\ env.XactReadOnly
    /\ Len(trace) = 2
    /\ OwnLockRequests = {1}
    /\ ErrorOf(trace) = "ReadOnlyViolation"

\* a CREATE TABLE of a temporary table that reached standard_ProcessUtility
TempCreate ==
    /\ Dispatched /\ call.stmt.kind = "T_CreateStmt" /\ call.stmt.temp

\* the sub-statements of the expansion that are run by a nested call
NestedSubStmts ==
    {n \in 1..Len(Expansion) :
        Expansion[n].kind \notin {"T_CreateStmt", "T_CreateForeignTableStmt"}}

\* C32 as stated: processing a CREATE TABLE of a temporary table never
\* requests the backup lock, neither for the statement nor for a
\* sub-statement of its expansion.
C32_AsStated == TempCreate => LockRequests = {}

\* C32 (what the code does): no request is made for the CREATE TABLE
\* statement itself; on the coordinating entry point in normal processing
\* mode each sequence, index or constraint sub-statement that is run by a
\* nested call requests the lock in its own dispatch; nowhere else is a
\* request made.
C32_TempCreateLocks ==
    TempCreate =>
        /\ OwnLockRequests = {}
        /\ ~(IsCoordMaster(env) /\ env.normalMode) => LockRequests = {}
        /\ NestedSubStmts = {} => LockRequests = {}
        /\ IsCoordMaster(env) /\ env.normalMode /\ ~Failed(trace) =>
              \A n \in NestedSubStmts :
                  \E i \in LockRequests : trace[i].tag = Expansion[n].kind

\* a temporary table with an index: the nested CREATE INDEX requests the
\* lock after the table has been made
C32_Witness ==
    /\ TempCreate /\ ~Failed(trace)
    /\ Len(Expansion) = 2
    /\ Expansion[1].kind = "T_CreateStmt" /\ Expansion[1].temp
    /\ Expansion[2].kind = "T_IndexStmt"
    /\ \E i \in LockRequests :
          /\ trace[i].tag = "T_IndexStmt"
          /\ \E j \in Locals : j < i /\ trace[j].tag = "DefineRelation"

(***************************************************************************)
(* Properties of force_autocommit (SpecUtility)                            *)
(***************************************************************************)
\* the statements the claim names
AutocommitClaimed ==
    \/ call.stmt.kind \in {"T_CreateTableSpaceStmt", "T_DropTableSpaceStmt",
                           "T_AlterTableSpaceOptionsStmt", "T_CheckPointStmt"}
    \/ /\ call.stmt.kind = "T_ReindexStmt"
       /\ call.stmt.sub \in {"REINDEX_OBJECT_DATABASE", "REINDEX_OBJECT_SCHEMA"}

\* the cases that assign utilityContext.force_autocommit (or that of a
\* request of their own)
AutocommitSetters ==
    {"T_AlterTableSpaceOptionsStmt", "T_DropdbStmt", "T_ClusterStmt",
     "T_VacuumStmt", "T_DiscardStmt", "T_CheckPointStmt", "T_ReindexStmt",
     "T_CleanConnStmt", "T_IndexStmt"}

Forced == {i \in Transports : trace[i].fa}

\* C33 as stated: every request built for CREATE, DROP and ALTER
\* TABLESPACE, CHECKPOINT and REINDEX DATABASE / SCHEMA carries
\* force_autocommit = true, and the flag is false unless the case set it.
C33_AsStated ==
    IsUtility =>
        /\ AutocommitClaimed => Forced = Transports
        /\ call.stmt.kind \notin AutocommitSetters
              /\ ~AutocommitClaimed => Forced = {}

\* C33 (what the code does): the requests of ALTER TABLESPACE, CHECKPOINT
\* and REINDEX DATABASE / SCHEMA carry force_autocommit = true; those of
\* CREATE TABLESPACE and DROP TABLESPACE, whose cases do not assign the
\* field, carry false, as does every request of a case that does not
\* assign it.
C33_AutocommitBySetter ==
    IsUtility =>
        /\ AutocommitClaimed
              /\ call.stmt.kind \notin {"T_CreateTableSpaceStmt",
                                        "T_DropTableSpaceStmt"}
              => Forced = Transports
        /\ call.stmt.kind \notin AutocommitSetters => Forced = {}

\* CREATE TABLESPACE on the coordinating entry point: the request goes out
\* without force_autocommit
C33_Witness ==
    /\ IsUtility /\ call.stmt.kind = "T_CreateTableSpaceStmt"
    /\ ~Failed(trace)
    /\ Transports # {} /\ Forced = {}

(***************************************************************************)
(* Properties of SET (SpecUtility)                                         *)
(***************************************************************************)
SetCall == Dispatched /\ call.stmt.kind = "T_VariableSetStmt"

PoolSets == {i \in 1..Len(trace) : trace[i].op = "poolSet"}

\* stmt->is_local
SetIsLocal == call.stmt.flag

\* C34: SET is handed to the pool manager at most once, after the local set
\* was applied and only on the coordinating entry point: SET LOCAL as a
\* local pool command when a transaction block is open and not at all when
\* none is; any other SET as a global pool command; SET grammar never; a
\* failure the pool manager reports raises an error.
C34_SetForwarding ==
    SetCall =>
        /\ Cardinality(PoolSets) <= 1
        /\ PoolSets # {} <=>
              /\ IsCoordMaster(env) /\ ~call.stmt.fails
              /\ call.stmt.sub # "grammar"
              /\ SetIsLocal => env.xactBlock
        /\ \A i \in PoolSets :
              /\ trace[i].tag = IF SetIsLocal THEN "POOL_CMD_LOCAL_SET"
                                ELSE "POOL_CMD_GLOBAL_SET"
              /\ \E j \in Locals :
                    j < i /\ trace[j].tag = "ExecSetVariableStmt"
              /\ call.stmt.flag2 <=> Failed(trace)
        /\ Transports = {}

\* SET LOCAL inside a transaction block on the coordinating entry point,
\* refused by the pool manager
C34_Witness ==
    /\ SetCall /\ SetIsLocal /\ env.xactBlock
    /\ \E i \in PoolSets : trace[i].tag = "POOL_CMD_LOCAL_SET"
    /\ ErrorOf(trace) = "InternalError"

(***************************************************************************)
(* Properties of the completion tag (SpecUtility)                          *)
(***************************************************************************)
\* the handler calls that are handed the caller's buffer
TagHandlers == {i \in Locals : trace[i].node}

TagHandlerKinds ==
    {"T_FetchStmt", "T_ExecuteStmt", "T_CreateTableAsStmt",
     "T_RefreshMatViewStmt"}

\* what the dispatcher itself leaves in the buffer of a call that returns
DispatcherTag ==
    IF /\ call.stmt.kind = "T_TransactionStmt"
       /\ call.stmt.sub \in {"TRANS_STMT_COMMIT", "TRANS_STMT_PREPARE"}
       /\ ReportedFailed
    THEN "ROLLBACK"
    ELSE IF call.stmt.kind = "T_CopyStmt" THEN "COPY" ELSE ""

\* C35: with no buffer nothing is written and no handler is handed one, so
\* the recursive sub-statement calls, made with no buffer, leave the
\* caller's tag alone; with a buffer the tag is reset to empty before the
\* statement is routed, and a call that returns leaves it empty unless the
\* statement is a COMMIT or PREPARE reported unsuccessful ("ROLLBACK") or a
\* COPY (row count); only the handlers of FETCH, EXECUTE, CREATE TABLE AS
\* and REFRESH MATERIALIZED VIEW are handed the buffer.
C35_CompletionTag ==
    IsUtility =>
        /\ ~call.hasTag => TagWrites = {} /\ TagHandlers = {}
        /\ \A i \in 2..Len(trace) :
              trace[i].op = "ProcessUtility_hook" => ~trace[i].node
        /\ Dispatched /\ call.hasTag =>
              /\ Cardinality(TagWrites) <= 2
              /\ TagWrites = {} => Failed(trace) /\ Locals = {}
              /\ \A i \in TagWrites :
                    (\A k \in TagWrites : i <= k) =>
                        /\ trace[i].tag = ""
                        /\ \A j \in Locals \cup Transports : i < j
              /\ ~Failed(trace) => CompletionTag = DispatcherTag
              /\ TagHandlers # {} => call.stmt.kind \in TagHandlerKinds
              /\ Cardinality(TagHandlers) <= 1

\* a CREATE TABLE with an index, called with a buffer: the tag is reset
\* once and the nested CREATE INDEX writes nothing
C35_Witness ==
    /\ Dispatched /\ call.hasTag /\ ~Failed(trace)
    /\ call.stmt.kind = "T_CreateStmt"
    /\ Len(Expansion) = 2 /\ Expansion[2].kind = "T_IndexStmt"
    /\ Cardinality(TagWrites) = 1 /\ CompletionTag = ""
    /\ \E i \in Locals : trace[i].tag = "DefineIndex"

(***************************************************************************)
(* Properties of the statements that need a transaction block              *)
(* (SpecUtility)                                                           *)
(***************************************************************************)
\* RELEASE SAVEPOINT, ROLLBACK TO SAVEPOINT and LOCK TABLE
NeedsBlock ==
    /\ Dispatched
    /\ \/ /\ call.stmt.kind = "T_TransactionStmt"
          /\ call.stmt.sub \in {"TRANS_STMT_RELEASE", "TRANS_STMT_ROLLBACK_TO"}
       \/ call.stmt.kind = "T_LockStmt"

XactCalls == {i \in 1..Len(trace) : trace[i].op = "xact"}

MatViewSends ==
    {i \in 1..Len(trace) : trace[i].op = "pgxc_send_matview_data"}

\* C37: when the connection comes from a coordinator no statement makes
\* this node send anything on: no call of the transport (the RemoteQuery
\* node that CREATE TABLE and ALTER TABLE append included), no pool command
\* of SET, no sending of materialized-view data.
C37_NotForwardedAgain ==
    IsUtility /\ env.connFromCoord =>
        Transports = {} /\ PoolSets = {} /\ MatViewSends = {}

\* a CREATE TABLE received from a coordinator without the forwarded mark:
\* the RemoteQuery node is appended and run, and sends nothing
C37_Witness ==
    /\ IsUtility /\ env.connFromCoord /\ ~env.hook
    /\ call.stmt.kind = "T_CreateStmt" /\ ~call.sentToRemote
    /\ ~Failed(trace)
    /\ Injections # {} /\ Transports = {}

(***************************************************************************)
(* Properties of the alter-table context of ALTER TABLE (SpecUtility)      *)
(***************************************************************************)
AlterTableStarts ==
    {i \in 1..Len(trace) : trace[i].op = "EventTriggerAlterTableStart"}

AlterTableEnds ==
    {i \in 1..Len(trace) : trace[i].op = "EventTriggerAlterTableEnd"}

\* how many alter-table contexts are open after event i
OpenAfter(i) ==
    Cardinality({j \in AlterTableStarts : j <= i})
    - Cardinality({j \in AlterTableEnds : j <= i})

\* an ALTER TABLE call that reached the execution of its list
AlterTableExecuted ==
    /\ Dispatched /\ call.stmt.kind = "T_AlterTableStmt"
    /\ AlterTableStarts # {}

\* the cells of the executed list that are run by a recursive call: the
\* cells of the expansion that are not the alteration proper, and the
\* appended RemoteQuery node
RecursedCells ==
    Cardinality({n \in 1..Len(Expansion) :
                    Expansion[n].kind # "T_AlterTableStmt"})
    + Cardinality(Injections)

\* the recursed cells that open a context of their own
RecursedIndexes ==
    Cardinality({n \in 1..Len(Expansion) :
                    Expansion[n].kind = "T_IndexStmt"})

\* the first events a recursive call makes: the hook, the lock request
RecursiveEntries ==
    {i \in 2..Len(trace) : trace[i].op = "ProcessUtility_hook"}
    \cup {i \in LockRequests : trace[i].tag # "T_AlterTableStmt"}

\* what a recursive call does outside a context of its own
RecursiveWork ==
    Transports
    \cup {i \in Locals : trace[i].tag \notin {"AlterTable", "DefineIndex"}}

AlterationsProper == {i \in Locals : trace[i].tag = "AlterTable"}

NoBlockKinds ==
    {"T_CreatedbStmt", "T_DropdbStmt", "T_CreateTableSpaceStmt",
     "T_DropTableSpaceStmt"}

\* a call for one of the four kinds that got past the guards every
\* statement goes through
NoBlockCall ==
    /\ Dispatched /\ call.stmt.kind \in NoBlockKinds
    /\ ErrorOf(trace) \notin {"ReadOnlyViolation", "ParallelModeViolation"}

\* the local catalog action of the statement
CatalogActions ==
    {i \in Locals : trace[i].tag \in NoBlockKinds \cup {"dropdb"}}

CleanRequests == {i \in Transports : trace[i].tag = "CLEAN CONNECTION"}

DropdbRequests == {i \in Transports : trace[i].tag = "T_DropdbStmt"}

\* C39: on the entry point the four statements are refused inside a
\* transaction block before the catalog action and before any request; on
\* another node the check is skipped and the catalog action runs.  DROP
\* DATABASE on the entry point drops locally, then sends the clean-connection
\* request (coordinators, force-autocommit, no statement), then the DROP
\* DATABASE request with the fields of the utilityContext as initialised.
C39_DatabaseAndTablespace ==
    NoBlockCall =>
        /\ IsCoordMaster(env) /\ env.xactBlock =>
              /\ ErrorOf(trace) = "ActiveSqlTransaction"
              /\ Locals = {} /\ Transports = {}
        /\ ~IsCoordMaster(env) =>
              /\ ErrorOf(trace) # "ActiveSqlTransaction"
              /\ CatalogActions # {}
        /\ call.stmt.kind = "T_DropdbStmt" /\ IsCoordMaster(env) =>
              /\ Transports = CleanRequests \cup DropdbRequests
              /\ \A i \in CleanRequests :
                    /\ trace[i].exec = EXEC_ON_COORDS /\ trace[i].fa
                    /\ ~trace[i].temp /\ ~trace[i].node
                    /\ \E j \in CatalogActions : j < i
              /\ \A i \in DropdbRequests :
                    /\ trace[i].exec = EXEC_ON_ALL_NODES /\ ~trace[i].fa
                    /\ ~trace[i].temp /\ ~trace[i].node
                    /\ \E j \in CleanRequests : j < i
              /\ ~Failed(trace) /\ ~call.sentToRemote =>
                    /\ Cardinality(CleanRequests) = 1
                    /\ Cardinality(DropdbRequests) = 1

\* a DROP DATABASE on the entry point, outside a transaction block, that
\* returns after both requests
C39_Witness ==
    /\ NoBlockCall /\ call.stmt.kind = "T_DropdbStmt"
    /\ IsCoordMaster(env) /\ ~env.xactBlock /\ ~Failed(trace)
    /\ CleanRequests # {} /\ DropdbRequests # {}

(***************************************************************************)
(* Properties of the transaction phase (SpecUtility)                       *)
(***************************************************************************)
PreparedCall ==
    /\ Dispatched /\ call.stmt.kind = "T_TransactionStmt"
    /\ call.stmt.sub \in {"TRANS_STMT_COMMIT_PREPARED",
                           "TRANS_STMT_ROLLBACK_PREPARED"}
    /\ ErrorOf(trace) \notin {"ReadOnlyViolation", "ParallelModeViolation"}

PhaseSwitches == {i \in 1..Len(trace) : trace[i].op = "phase"}

\* the phase the session is in when the call ends; a session is in phase 1
\* when the call starts
PhaseAtEnd ==
    IF PhaseSwitches = {} THEN "1"
    ELSE LET last == CHOOSE i \in PhaseSwitches :
                         \A j \in PhaseSwitches : j <= i
         IN trace[last].tag

GuardsPassed == ~env.xactBlock /\ ~env.recovery

\* C40 as stated: the switch to phase 2 is made only after both guards have
\* passed, and the session is in phase 1 when the handling ends, by return
\* or by an error of FinishPreparedTransactionExt.
C40_AsStated ==
    PreparedCall =>
        /\ (\E i \in PhaseSwitches : trace[i].tag = "2") => GuardsPassed
        /\ PhaseAtEnd = "1"

\* C40: the switch to phase 2 is made exactly when both guards have passed,
\* before the call of FinishPreparedTransactionExt; the session is back in
\* phase 1 when that call returns, and still in phase 2 when it raises.
C40_PhaseByPath ==
    PreparedCall =>
        /\ (\E i \in PhaseSwitches : trace[i].tag = "2") <=> GuardsPassed
        /\ \A i \in XactCalls : \E j \in PhaseSwitches :
              j < i /\ trace[j].tag = "2"
        /\ GuardsPassed =>
              PhaseAtEnd = (IF call.stmt.fails THEN "2" ELSE "1")
        /\ ~GuardsPassed => PhaseSwitches = {} /\ XactCalls = {}

\* a COMMIT PREPARED past both guards whose FinishPreparedTransactionExt
\* raises: the call ends in phase 2
C40_Witness ==
    /\ PreparedCall /\ call.stmt.sub = "TRANS_STMT_COMMIT_PREPARED"
    /\ GuardsPassed /\ call.stmt.fails
    /\ ErrorOf(trace) = "FinishPreparedTransactionExt"
    /\ PhaseAtEnd = "2"

=============================================================================
